---- MODULE Spec2Model ----
(***************************************************************************)
(* Model of the block synchronization manager (package syncmanager,        *)
(* src/unnamed/part_000).  The sync state is owned by one event loop;      *)
(* every handler is modelled as one atomic step that maps the state before *)
(* the message to the set of states the handler can leave behind (Go map   *)
(* iteration order and the outcome of the injected callbacks are the only  *)
(* sources of nondeterminism).                                             *)
(*                                                                         *)
(* Block hashes are the heights 1..MaxHeight of one header chain on top of *)
(* the genesis block 0, chain work of a block is its height.  Protocol     *)
(* constants keep the names of the source; their values are scaled down    *)
(* so that the caps are reached inside the explored state space (the value *)
(* of the source is given next to each).                                   *)
(***************************************************************************)
EXTENDS Integers, Sequences, FiniteSets, TLC

\* ------------------------------------------------------------------ bounds
NumPeers == 2
MaxHeight == 3
\* transaction hashes of SpecMix
NumTx == 1
\* transaction hashes peers announce in the transaction-centred SpecTx
NumTxReq == 3
\* transaction hashes ProcessTransactionCallBack can reject in SpecTx
NumTxWide == 4
\* block hashes of SpecTx and SpecMix
MaxHeightMix == 1
\* cap on peerSyncState.unconnectingHeaders in the explored runs
MaxUnconnecting == 1
\* API calls made in one run of SpecLoop
MaxCalls == 2
\* calls of Start and of Stop in one run of SpecLoop
MaxStarts == 2
MaxStops == 2
\* part_000:1577 capacity of processBusinessChan, config.MaxPeers*3
QueueCap == 1
\* last reading of the clock in SpecStall, in units of BLOCK_STALLING_TIMEOUT
MaxTime == 3
MaxSide == 2

\* part_000:35 maxRejectedTxns = 1000
maxRejectedTxns == 2
\* wire.MaxInvPerMsg = 50000
MaxInvPerMsg == 2
\* part_000:43 maxRequestedTxns = wire.MaxInvPerMsg
maxRequestedTxns == MaxInvPerMsg
\* part_000:48 MAX_BLOCKS_IN_TRANSIT_PER_PEER = 16
MAX_BLOCKS_IN_TRANSIT_PER_PEER == 2
\* part_000:58 BLOCK_DOWNLOAD_WINDOW = 1024
BLOCK_DOWNLOAD_WINDOW == 2
\* part_000:792 slab of 128 successors
SlabSize == 2
\* part_000:61 MAX_UNCONNECTING_HEADERS = 10
MAX_UNCONNECTING_HEADERS == 2
\* part_000:68 BLOCK_STALLING_TIMEOUT = 2 * 1000000 microseconds
BLOCK_STALLING_TIMEOUT == 1
\* pow.MiniChainWork()
MinChainWork == 1

Peers == 1..NumPeers
\* nil *peer.Peer
NoPeer == 0
\* nil *blockindex.BlockIndex / nil *util.Hash
NilIndex == -1
\* zeroHash, the stop hash of an open-ended getheaders
zeroHash == 0
Blocks == 1..MaxHeight
TxHashes == 1..NumTxWide

Min(a, b) == IF a < b THEN a ELSE b
Max(a, b) == IF a > b THEN a ELSE b

\* ------------------------------------------------------------------ state
VARIABLES
  rejectedTxns,      \* sm.rejectedTxns
  requestedTxns,     \* sm.requestedTxns
  requestedBlocks,   \* sm.requestedBlocks: hash -> owning peer, NoPeer when absent
  syncPeer,          \* sm.syncPeer
  peerStates,        \* sm.peerStates
  peers,             \* the peer.Peer objects the manager reads and writes
  hasData,           \* block index entries that have block data
  bestHeader,        \* height of the best header of the peers' chain in the index
  invalidFrom,       \* lowest height that fails BlockValidTree, NilIndex when none
  ibd,               \* lchain.IsInitialBlockDownload()
  regtest,           \* sm.chainParams == &model.RegressionNetParams
  now,               \* time.Now() in units of the stalling clock
  side,              \* blocks of the local branch off the genesis block that no peer has
  started,           \* sm.started
  launched,          \* the goroutines running messagesHandler that Start has launched
  shutdown,          \* sm.shutdown
  quit,              \* sm.quit closed
  queue,             \* sm.processBusinessChan
  worker,            \* the messagesHandler goroutine
  calls              \* the API calls in progress and their reply channels

syncVars == <<rejectedTxns, requestedTxns, requestedBlocks, syncPeer, peerStates,
              peers, hasData, bestHeader, invalidFrom, ibd, regtest, now, side>>
loopVars == <<started, launched, shutdown, quit, queue, worker, calls>>
vars == <<rejectedTxns, requestedTxns, requestedBlocks, syncPeer, peerStates,
          peers, hasData, bestHeader, invalidFrom, ibd, regtest, now, side,
          started, launched, shutdown, quit, queue, worker, calls>>

\* peerSyncState of a peer that is not a key of sm.peerStates
AbsentState ==
  [present |-> FALSE, syncCandidate |-> FALSE, requestQueue |-> <<>>,
   requestedTxns |-> {}, requestedBlocks |-> {}, unconnectingHeaders |-> 0]

\* peerSyncState as handleNewPeerMsg creates it
NewState(cand) ==
  [present |-> TRUE, syncCandidate |-> cand, requestQueue |-> <<>>,
   requestedTxns |-> {}, requestedBlocks |-> {}, unconnectingHeaders |-> 0]

\* a peer.Peer that is not connected
NoPeerObj ==
  [lastBlock |-> 0, lastAnnounced |-> NilIndex, stallingSince |-> 0,
   verAck |-> FALSE, nodeNetwork |-> FALSE, localhost |-> FALSE]

\* a peer.Peer right after its version handshake
FreshPeer(lb, va, nn, lh) ==
  [lastBlock |-> lb, lastAnnounced |-> NilIndex, stallingSince |-> 0,
   verAck |-> va, nodeNetwork |-> nn, localhost |-> lh]

\* What one step sends and decides (it is no part of the state): the result
\* of the handler, the transaction hashes of its getdata, the <<peer, block>>
\* entries of its getdata messages in the order they were added, its
\* getheaders as <<peer, stop hash>>, the peers it disconnects, and its
\* reject messages as <<peer, command, hash>>.
NoOut ==
  [res |-> "none", getdataTx |-> {}, getdataBlk |-> <<>>, getheaders |-> <<>>,
   disconnect |-> {}, reject |-> {}]

\* The state a handler works on: the variables, the answers the chain gives
\* during this step (env) and what the step has sent so far (out).
Cur(env) ==
  [rejectedTxns |-> rejectedTxns, requestedTxns |-> requestedTxns,
   requestedBlocks |-> requestedBlocks, syncPeer |-> syncPeer,
   peerStates |-> peerStates, peers |-> peers, hasData |-> hasData,
   bestHeader |-> bestHeader, invalidFrom |-> invalidFrom, ibd |-> ibd, regtest |-> regtest,
   now |-> now, side |-> side,
   shutdown |-> shutdown, env |-> env,
   out |-> NoOut]

Install(S) ==
  /\ rejectedTxns' = S.rejectedTxns
  /\ requestedTxns' = S.requestedTxns
  /\ requestedBlocks' = S.requestedBlocks
  /\ syncPeer' = S.syncPeer
  /\ peerStates' = S.peerStates
  /\ peers' = S.peers
  /\ hasData' = S.hasData
  /\ bestHeader' = S.bestHeader
  /\ invalidFrom' = S.invalidFrom
  /\ ibd' = S.ibd
  /\ UNCHANGED <<regtest, now, side>>

\* ------------------------------------------------------------------ chain
\* The blocks the peers announce form one chain, a block is named by its
\* height there.  The local chain may start on a branch of S.side blocks
\* off the genesis block that no peer has; it stays the active chain until
\* the connected blocks of the peers' chain have more work.
\* the blocks 1..TipOf of the peers' chain are connected
RECURSIVE TipOf(_, _)
TipOf(data, h) == IF h + 1 \in data THEN TipOf(data, h + 1) ELSE h
MainTip(S) == TipOf(S.hasData, 0)
SideActive(S) == S.side > 0 /\ MainTip(S) <= S.side
\* chain.Tip().Height
Tip(S) == IF SideActive(S) THEN S.side ELSE MainTip(S)
\* the highest block of the peers' chain that is in the active chain
ActiveMain(S) == IF SideActive(S) THEN 0 ELSE MainTip(S)
\* chain.GetIndexBestHeader().Height
BestHeader(S) == IF S.side > S.bestHeader THEN S.side ELSE S.bestHeader

\* BlockIndex.ChainWork
ChainWork(h) == h
\* chain.FindBlockIndex(hash) != nil
InIndex(S, h) == h >= 0 /\ h <= S.bestHeader
\* BlockIndex.HasData()
HasData(S, h) == h = 0 \/ h \in S.hasData
\* chain.Contains(index) / chain.FindHashInActive(hash) != nil
InActive(S, h) == h >= 0 /\ h <= ActiveMain(S)
\* chain.FindFork(index)
FindFork(S, h) == Min(h, ActiveMain(S))
\* BlockIndex.IsValid(BlockValidTree)
IsValid(S, h) == S.invalidFrom = NilIndex \/ h < S.invalidFrom

\* ------------------------------------------------------------------ peer
PushGetHeadersMsg(S, p, stop) ==
  [S EXCEPT !.out.getheaders = Append(@, <<p, stop>>)]

Disconnect(S, p) == [S EXCEPT !.out.disconnect = @ \cup {p}]

\* PushRejectMsg that sends nothing
PushRejectMsgNone(S, p, cmd, hash) == S

PushRejectMsg(S, p, cmd, hash) ==
  [S EXCEPT !.out.reject = @ \cup {<<p, cmd, hash>>}]

\* errcode.IsRejectCode(err) of what a ProcessBlockCallBack or
\* ProcessTransactionCallBack returned
IsRejectCode(err) == err \in {"reject", "invalid"}

QueueGetData(S, p, hs) ==
  IF Len(hs) > 0
    THEN [S EXCEPT !.out.getdataBlk = @ \o [i \in 1..Len(hs) |-> <<p, hs[i]>>]]
    ELSE S

isSyncCandidate(S, p) ==
  IF S.regtest THEN S.peers[p].localhost ELSE S.peers[p].nodeNetwork

current(S) ==
  IF ~S.env.isCurrent THEN FALSE
  ELSE IF S.syncPeer = NoPeer THEN TRUE
  ELSE IF Tip(S) < S.peers[S.syncPeer].lastBlock THEN FALSE
  ELSE TRUE

\* ------------------------------------------------------------------ fetch
lastAccouncedBlock(S, p) ==
  LET h == S.peers[p].lastAnnounced IN
  IF h = NilIndex THEN NilIndex
  ELSE IF ~InIndex(S, h) THEN NilIndex
  ELSE h

\* [walk, best, S]: the two sync points and the state after the getheaders
\* that is pushed when the peer's best block is not known
syncPoints(S, p) ==
  LET best == lastAccouncedBlock(S, p) IN
  IF best = NilIndex
    THEN [walk |-> NilIndex, best |-> NilIndex, S |-> PushGetHeadersMsg(S, p, zeroHash)]
  ELSE IF S.ibd
    THEN IF Tip(S) > best \/ ChainWork(Tip(S)) > ChainWork(best)
           THEN [walk |-> NilIndex, best |-> NilIndex, S |-> S]
           ELSE [walk |-> Tip(S), best |-> best, S |-> S]
  ELSE [walk |-> FindFork(S, best), best |-> best, S |-> S]

\* part_000:833-836: one block joins the getdata and both request indices
\* the request of part_000:833-836 without the entry in sm.requestedBlocks
RequestBlockUnrecorded(W, p, h) ==
  [W EXCEPT !.S.peerStates[p].requestedBlocks = @ \cup {h},
            !.gd = Append(@, h)]

RequestBlock(W, p, h) ==
  [W EXCEPT !.S.requestedBlocks[h] = p,
            !.S.peerStates[p].requestedBlocks = @ \cup {h},
            !.gd = Append(@, h)]

\* the stall clock of part_000:818-832 without the test of part_000:824
StallArmOverwrite(W, p) ==
  LET w == W.waitingfor IN
  IF /\ Len(W.gd) = 0
     /\ w # NoPeer
     /\ w # p
     /\ Cardinality(W.S.peerStates[p].requestedBlocks) = 0
    THEN [W EXCEPT !.brk = TRUE, !.S.peers[w].stallingSince = W.S.now]
    ELSE [W EXCEPT !.brk = TRUE]

\* part_000:818-832: the first missing block above the window
StallArm(W, p) ==
  LET w == W.waitingfor IN
  IF /\ Len(W.gd) = 0
     /\ w # NoPeer
     /\ w # p
     /\ Cardinality(W.S.peerStates[p].requestedBlocks) = 0
     /\ W.S.peers[w].stallingSince = 0
    THEN [W EXCEPT !.brk = TRUE, !.S.peers[w].stallingSince = W.S.now]
    ELSE [W EXCEPT !.brk = TRUE]

\* the pass over vToFetch without the window test of part_000:818-832
RECURSIVE ScanListNoWindow(_, _, _, _)
ScanListNoWindow(W, p, i, nWindowEnd) ==
  IF i > Len(W.list) THEN W
  ELSE
    LET h == W.list[i] IN
    IF ~IsValid(W.S, h) THEN [W EXCEPT !.brk = TRUE]
    ELSE IF HasData(W.S, h) THEN ScanListNoWindow(W, p, i + 1, nWindowEnd)
    ELSE IF W.S.requestedBlocks[h] # NoPeer
      THEN ScanListNoWindow([W EXCEPT !.waitingfor =
                                IF @ = NoPeer THEN W.S.requestedBlocks[h] ELSE @],
                            p, i + 1, nWindowEnd)
    ELSE
      LET W2 == RequestBlock(W, p, h) IN
      IF Cardinality(W2.S.peerStates[p].requestedBlocks) = MAX_BLOCKS_IN_TRANSIT_PER_PEER
        THEN [W2 EXCEPT !.brk = TRUE]
        ELSE ScanListNoWindow(W2, p, i + 1, nWindowEnd)

\* part_000:802-840: the pass over vToFetch, front to back
RECURSIVE ScanList(_, _, _, _)
ScanList(W, p, i, nWindowEnd) ==
  IF i > Len(W.list) THEN W
  ELSE
    LET h == W.list[i] IN
    IF ~IsValid(W.S, h) THEN [W EXCEPT !.brk = TRUE]
    ELSE IF HasData(W.S, h) THEN ScanList(W, p, i + 1, nWindowEnd)
    ELSE IF W.S.requestedBlocks[h] # NoPeer
      THEN ScanList([W EXCEPT !.waitingfor =
                        IF @ = NoPeer THEN W.S.requestedBlocks[h] ELSE @],
                    p, i + 1, nWindowEnd)
    ELSE IF h > nWindowEnd THEN StallArm(W, p)
    ELSE
      LET W2 == RequestBlock(W, p, h) IN
      IF Cardinality(W2.S.peerStates[p].requestedBlocks) = MAX_BLOCKS_IN_TRANSIT_PER_PEER
        THEN [W2 EXCEPT !.brk = TRUE]
        ELSE ScanList(W2, p, i + 1, nWindowEnd)

\* part_000:792-799: the next nToFetch successors of pindexWalk are pushed
\* in front of vToFetch and pindexWalk moves to the last of them
PushSlab(W, nMaxHeight) ==
  LET nToFetch == Min(nMaxHeight - W.walk, SlabSize)
      slab == [i \in 1..nToFetch |-> W.walk + i]
  IN [W EXCEPT !.walk = W.walk + nToFetch, !.list = slab \o @]

\* part_000:787-841: the slabs; vToFetch is never emptied, a new slab is
\* pushed in front of the earlier ones
RECURSIVE WalkSlabs(_, _, _, _)
WalkSlabs(W, p, nWindowEnd, nMaxHeight) ==
  IF W.brk \/ ~(W.walk < nMaxHeight) THEN W
  ELSE
    WalkSlabs(ScanList(PushSlab(W, nMaxHeight), p, 1, nWindowEnd), p, nWindowEnd, nMaxHeight)

\* fetchHeaderBlocks without the return of part_000:768-771
fetchHeaderBlocksAnyWork(S, p) ==
  IF ~isSyncCandidate(S, p) THEN S
  ELSE IF ~S.peers[p].verAck THEN S
  ELSE IF ~S.peerStates[p].present THEN S
  ELSE IF Cardinality(S.peerStates[p].requestedBlocks) = MAX_BLOCKS_IN_TRANSIT_PER_PEER THEN S
  ELSE IF ChainWork(BestHeader(S)) < MinChainWork THEN S
  ELSE
    LET sp == syncPoints(S, p) IN
    IF sp.walk = NilIndex \/ sp.best = NilIndex THEN sp.S
    ELSE IF ChainWork(sp.best) < MinChainWork THEN S
    ELSE
      LET nWindowEnd == sp.walk + BLOCK_DOWNLOAD_WINDOW
          nMaxHeight == Min(sp.best, nWindowEnd + 1)
          W0 == [S |-> S, walk |-> sp.walk, list |-> <<>>, waitingfor |-> NoPeer,
                 gd |-> <<>>, brk |-> FALSE]
          W == WalkSlabs(W0, p, nWindowEnd, nMaxHeight)
      IN QueueGetData(W.S, p, W.gd)

\* part_000:723-847
fetchHeaderBlocks(S, p) ==
  IF ~isSyncCandidate(S, p) THEN S
  ELSE IF ~S.peers[p].verAck THEN S
  ELSE IF ~S.peerStates[p].present THEN S
  ELSE IF Cardinality(S.peerStates[p].requestedBlocks) = MAX_BLOCKS_IN_TRANSIT_PER_PEER THEN S
  ELSE IF ChainWork(BestHeader(S)) < MinChainWork THEN S
  ELSE
    LET sp == syncPoints(S, p) IN
    IF sp.walk = NilIndex \/ sp.best = NilIndex THEN sp.S
    ELSE IF ChainWork(sp.best) < MinChainWork THEN S
    ELSE IF ChainWork(sp.best) < ChainWork(Tip(S)) THEN S
    ELSE
      LET nWindowEnd == sp.walk + BLOCK_DOWNLOAD_WINDOW
          nMaxHeight == Min(sp.best, nWindowEnd + 1)
          W0 == [S |-> S, walk |-> sp.walk, list |-> <<>>, waitingfor |-> NoPeer,
                 gd |-> <<>>, brk |-> FALSE]
          W == WalkSlabs(W0, p, nWindowEnd, nMaxHeight)
      IN QueueGetData(W.S, p, W.gd)

\* ------------------------------------------------------------------ peers
\* startSync without the getheaders of part_000:322
ElectPeerNoGetHeaders(S, q) == [S EXCEPT !.syncPeer = q]

\* part_000:299-328: syncing starts from bestPeer
ElectPeer(S, q) ==
  LET S1 == PushGetHeadersMsg(S, q, zeroHash)
      S2 == [S1 EXCEPT !.syncPeer = q]
  IN S2

\* the loop of startSync without the test of part_000:289-291
SyncCandidatesAnyHeight(S) ==
  {q \in Peers : /\ S.peerStates[q].present
                 /\ S.peerStates[q].syncCandidate}

\* The peers the loop of startSync can leave in bestPeer: the range over
\* sm.peerStates visits the keys in any order and the last match wins.
SyncCandidates(S) ==
  {q \in Peers : /\ S.peerStates[q].present
                 /\ S.peerStates[q].syncCandidate
                 /\ ~(S.peers[q].lastBlock < Tip(S))}

startSync(S) ==
  IF S.syncPeer # NoPeer THEN {S}
  ELSE IF SyncCandidates(S) = {} THEN {S}
  ELSE {ElectPeer(S, q) : q \in SyncCandidates(S)}

handleNewPeerMsg(S, p) ==
  IF S.shutdown # 0 THEN {S}
  ELSE
    LET cand == isSyncCandidate(S, p)
        S1 == [S EXCEPT !.peerStates[p] = NewState(cand)]
        S2 == IF ~S1.ibd /\ S1.peers[p].verAck
                THEN PushGetHeadersMsg(S1, p, zeroHash) ELSE S1
    IN
    IF cand /\ S2.syncPeer = NoPeer THEN startSync(S2)
    ELSE IF /\ cand
            /\ current(S2)
            /\ S2.peers[p].lastBlock > S2.peers[S2.syncPeer].lastBlock
      THEN startSync([S2 EXCEPT !.syncPeer = NoPeer])
    ELSE {fetchHeaderBlocks(S2, p)}

\* clearSyncPeerState without part_000:426-430, the purge of the
\* transactions requested from the peer
clearSyncPeerStateKeepTxns(S, p) ==
  LET state == S.peerStates[p] IN
  IF ~state.present THEN S
  ELSE [S EXCEPT !.peerStates[p] = AbsentState,
                 !.requestedBlocks =
                    [h \in DOMAIN @ |-> IF h \in state.requestedBlocks THEN NoPeer ELSE @[h]]]

clearSyncPeerState(S, p) ==
  LET state == S.peerStates[p] IN
  IF ~state.present THEN S
  ELSE [S EXCEPT !.peerStates[p] = AbsentState,
                 !.requestedTxns = @ \ state.requestedTxns,
                 !.requestedBlocks =
                    [h \in DOMAIN @ |-> IF h \in state.requestedBlocks THEN NoPeer ELSE @[h]]]

handleDonePeerMsg(S, p) ==
  LET S1 == clearSyncPeerState(S, p) IN
  IF S1.syncPeer = p
    THEN startSync([S1 EXCEPT !.syncPeer = NoPeer])
    ELSE {S1}

\* ------------------------------------------------------------------ txs
\* limitMap that never evicts
limitMapNoEvict(m, limit) == {m}

\* The maps limitMap can leave behind: one entry, any entry, is evicted
\* when the map holds limit entries or more.
limitMap(m, limit) ==
  IF Cardinality(m) + 1 > limit
    THEN {m \ {x} : x \in m}
    ELSE {m}

updateTxRequestState(S, p, txHash, rejectTxs) ==
  LET S1 == [S EXCEPT !.peerStates[p].requestedTxns = @ \ {txHash},
                      !.requestedTxns = @ \ {txHash}]
  IN {[S1 EXCEPT !.rejectedTxns = m] :
        m \in limitMap(S1.rejectedTxns \cup rejectTxs, maxRejectedTxns)}

\* haveInventory: env.haveTx are the hashes the mempool, the UTXO set or the
\* orphan pool know in this step
haveInventory(S, iv) ==
  CASE iv.type = "block" -> InIndex(S, iv.hash) /\ HasData(S, iv.hash)
    [] iv.type = "tx" -> iv.hash \in S.env.haveTx
    [] OTHER -> TRUE

alreadyHave(S, txHash) ==
  IF txHash \in S.rejectedTxns THEN TRUE
  ELSE haveInventory(S, [type |-> "tx", hash |-> txHash])

\* res: what ProcessTransactionCallBack returns, [rejectTxs, err]
handleTxMsg(S, p, txHash, res) ==
  IF ~S.peerStates[p].present THEN {[S EXCEPT !.out.res = "unknownpeer"]}
  ELSE IF alreadyHave(S, txHash) THEN {[S EXCEPT !.out.res = "have"]}
  ELSE {IF IsRejectCode(res.err)
          THEN PushRejectMsg([T EXCEPT !.out.res = res.err], p, "tx", txHash)
          ELSE [T EXCEPT !.out.res = res.err] :
          T \in updateTxRequestState(S, p, txHash, res.rejectTxs)}

\* ------------------------------------------------------------------ blocks
\* The chain after ProcessBlockCallBack(block) returned outcome:
\* "ok" stores the block, "invalid" is a rejection that marks the block
\* failed, "reject" and "error" leave the chain as it was.
ProcessBlockCallBack(S, h, outcome) ==
  CASE outcome = "ok" ->
         [S EXCEPT !.hasData = @ \cup {h}, !.bestHeader = Max(@, h)]
    [] outcome = "invalid" ->
         [S EXCEPT !.invalidFrom = IF @ = NilIndex THEN h ELSE Min(@, h)]
    [] OTHER -> S

\* the outcomes the chain can give for block h
BlockOutcomes(S, h) ==
  {"reject", "error"}
    \cup (IF InIndex(S, h - 1) /\ IsValid(S, h) /\ ~HasData(S, h) THEN {"ok"} ELSE {})
    \cup (IF InIndex(S, h - 1) /\ ~HasData(S, h) /\ h > ActiveMain(S) THEN {"invalid"} ELSE {})

\* part_000:631-660: the block was accepted
BlockAccepted(S, p) ==
  LET heightUpdate == Tip(S)
      S1 == [S EXCEPT !.rejectedTxns = {}]
      S2 == IF heightUpdate # 0
              THEN [S1 EXCEPT !.peers[p].lastBlock = heightUpdate]
              ELSE S1
  IN fetchHeaderBlocks(S2, p)

\* handleBlockMsg without the return of part_000:574-586: a block that
\* was not requested from the peer is processed on every chain
handleBlockMsgAnyBlock(S, p, blockHash, outcome) ==
  LET state == S.peerStates[p] IN
  IF ~state.present THEN [S EXCEPT !.out.res = "unknownpeer"]
  ELSE
    LET S1 == [S EXCEPT !.peerStates[p].requestedBlocks = @ \ {blockHash},
                        !.requestedBlocks[blockHash] = NoPeer,
                        !.peers[p].stallingSince = 0,
                        !.out.res = outcome]
        S2 == ProcessBlockCallBack(S1, blockHash, outcome)
        S3 == IF IsRejectCode(outcome)
                THEN PushRejectMsg(S2, p, "block", blockHash) ELSE S2
    IN
    IF outcome # "ok"
      THEN IF Cardinality(S3.peerStates[p].requestedBlocks) = 0
             THEN fetchHeaderBlocks(S3, p)
             ELSE S3
      ELSE BlockAccepted(S2, p)

handleBlockMsg(S, p, blockHash, outcome) ==
  LET state == S.peerStates[p] IN
  IF ~state.present THEN [S EXCEPT !.out.res = "unknownpeer"]
  ELSE IF blockHash \notin state.requestedBlocks /\ ~S.regtest
    THEN [Disconnect(S, p) EXCEPT !.out.res = "unrequested"]
  ELSE
    LET S1 == [S EXCEPT !.peerStates[p].requestedBlocks = @ \ {blockHash},
                        !.requestedBlocks[blockHash] = NoPeer,
                        !.peers[p].stallingSince = 0,
                        !.out.res = outcome]
        S2 == ProcessBlockCallBack(S1, blockHash, outcome)
        S3 == IF IsRejectCode(outcome)
                THEN PushRejectMsg(S2, p, "block", blockHash) ELSE S2
    IN
    IF outcome # "ok"
      THEN IF Cardinality(S3.peerStates[p].requestedBlocks) = 0
             THEN fetchHeaderBlocks(S3, p)
             ELSE S3
      ELSE BlockAccepted(S2, p)

\* handleMinedBlockMsg that also drops the request for the block
handleMinedBlockMsgClears(S, blockHash, outcome) ==
  [ProcessBlockCallBack(S, blockHash, outcome)
     EXCEPT !.out.res = outcome, !.requestedBlocks[blockHash] = NoPeer]

handleMinedBlockMsg(S, blockHash, outcome) ==
  [ProcessBlockCallBack(S, blockHash, outcome) EXCEPT !.out.res = outcome]

\* ------------------------------------------------------------------ headers
fetchHeadersToConnect(S, p) ==
  LET S1 == IF S.ibd /\ S.syncPeer = NoPeer THEN [S EXCEPT !.syncPeer = p] ELSE S IN
  IF S1.ibd /\ S1.syncPeer # p
    THEN fetchHeaderBlocks(S1, p)
    ELSE
      LET S2 == [S1 EXCEPT !.peerStates[p].unconnectingHeaders = @ + 1]
          S3 == PushGetHeadersMsg(S2, p, zeroHash)
      IN IF S3.peerStates[p].unconnectingHeaders % MAX_UNCONNECTING_HEADERS = 0
           THEN [S3 EXCEPT !.out.res = "banscore"]
           ELSE S3

\* hdr.last is the hash of the last header of the message
updatePeerState(S, p, hdr) ==
  LET S1 == [S EXCEPT !.peers[p].lastAnnounced = hdr.last] IN
  IF current(S1) /\ InIndex(S1, hdr.last) /\ InActive(S1, hdr.last)
    THEN [S1 EXCEPT !.peers[p].lastBlock = hdr.last]
    ELSE S1

\* The chain after ProcessBlockHeadCallBack accepted the headers up to last
ProcessBlockHeadCallBack(S, hdr) ==
  [S EXCEPT !.bestHeader = Max(@, hdr.last)]

\* part_000:1003-1013: back from pindexLast to the active chain
RECURSIVE WalkBack(_, _, _)
WalkBack(S, walk, vToFetch) ==
  IF /\ walk # NilIndex
     /\ ~InActive(S, walk)
     /\ Len(vToFetch) <= MAX_BLOCKS_IN_TRANSIT_PER_PEER
    THEN WalkBack(S, walk - 1,
                  IF ~HasData(S, walk) /\ S.requestedBlocks[walk] = NoPeer
                    THEN <<walk>> \o vToFetch
                    ELSE vToFetch)
    ELSE [list |-> vToFetch, isLargeReorg |-> ~InActive(S, walk)]

blocksToFetch(S, pindexLast) == WalkBack(S, pindexLast, <<>>)

\* the loop of fetchBlocks without the break of part_000:979-981
RECURSIVE FetchLoopNoCap(_, _, _, _)
FetchLoopNoCap(W, p, list, i) ==
  IF i > Len(list) THEN W
  ELSE FetchLoopNoCap(RequestBlock(W, p, list[i]), p, list, i + 1)

\* part_000:978-990: [S, gd] after the blocks list[i..] were looked at
RECURSIVE FetchLoop(_, _, _, _)
FetchLoop(W, p, list, i) ==
  IF i > Len(list) THEN W
  ELSE IF Cardinality(W.S.peerStates[p].requestedBlocks) >= MAX_BLOCKS_IN_TRANSIT_PER_PEER
    THEN W
  ELSE FetchLoop(RequestBlock(W, p, list[i]), p, list, i + 1)

fetchBlocks(S, p, vToFetch) ==
  LET W == FetchLoop([S |-> S, gd |-> <<>>], p, vToFetch, 1) IN
  QueueGetData(W.S, p, W.gd)

\* part_000:929-957: direct fetch or windowed fetch after valid headers
HeadersFetch(S, p, pindexLast) ==
  IF ~IsValid(S, pindexLast) THEN S
  ELSE IF ChainWork(Tip(S)) > ChainWork(pindexLast) THEN S
  ELSE IF S.env.canDirectFetch
    THEN LET b == blocksToFetch(S, pindexLast) IN
         IF b.isLargeReorg THEN fetchHeaderBlocks(S, p)
         ELSE fetchBlocks(S, p, b.list)
  ELSE IF Cardinality({q \in Peers : S.peerStates[q].present}) <= 2
    THEN fetchHeaderBlocks(S, p)
  ELSE S

\* hdr: [kind, first, last, procOk, full]; kind is "empty", "unconnect"
\* (the parent of the first header is not in the index), "noncont" or
\* "batch" (headers first..last, the parent of first is in the index)
handleHeadersMsg(S, p, hdr) ==
  LET state == S.peerStates[p] IN
  IF ~state.present THEN [S EXCEPT !.out.res = "unknownpeer"]
  ELSE IF hdr.kind = "empty" THEN fetchHeaderBlocks(S, p)
  ELSE IF hdr.kind = "unconnect" THEN fetchHeadersToConnect(S, p)
  ELSE IF hdr.kind = "noncont" THEN Disconnect(S, p)
  ELSE
    LET S1 == updatePeerState(S, p, hdr) IN
    IF ~hdr.procOk THEN [S1 EXCEPT !.out.res = "error"]
    ELSE
      LET S2 == ProcessBlockHeadCallBack(S1, hdr)
          S3 == IF S2.peerStates[p].unconnectingHeaders > 0
                  THEN [S2 EXCEPT !.peerStates[p].unconnectingHeaders = 0] ELSE S2
          S4 == IF hdr.full /\ p = S3.syncPeer
                  THEN PushGetHeadersMsg(S3, p, zeroHash) ELSE S3
      IN HeadersFetch([S4 EXCEPT !.out.res = "ok"], p, hdr.last)

\* ------------------------------------------------------------------ inv
\* index of the last block entry of the inv list, 0 when there is none
LastBlockIdx(invVects) ==
  LET idx == {i \in 1..Len(invVects) : invVects[i].type = "block"} IN
  IF idx = {} THEN 0 ELSE CHOOSE i \in idx : \A j \in idx : j <= i

\* the loop of part_000:1118-1152 without the skip of rejected
\* transactions (part_000:1141-1147)
RECURSIVE EnqueueInvNoSkip(_, _, _, _)
EnqueueInvNoSkip(S, p, invVects, i) ==
  IF i > Len(invVects) THEN S
  ELSE
    LET iv == invVects[i] IN
    IF iv.type \notin {"block", "tx"} THEN EnqueueInvNoSkip(S, p, invVects, i + 1)
    ELSE IF haveInventory(S, iv) THEN EnqueueInvNoSkip(S, p, invVects, i + 1)
    ELSE EnqueueInvNoSkip([S EXCEPT !.peerStates[p].requestQueue = Append(@, iv)],
                          p, invVects, i + 1)

\* part_000:1118-1152: the announced inventory joins the request queue
RECURSIVE EnqueueInv(_, _, _, _)
EnqueueInv(S, p, invVects, i) ==
  IF i > Len(invVects) THEN S
  ELSE
    LET iv == invVects[i] IN
    IF iv.type \notin {"block", "tx"} THEN EnqueueInv(S, p, invVects, i + 1)
    ELSE IF haveInventory(S, iv) THEN EnqueueInv(S, p, invVects, i + 1)
    ELSE IF iv.type = "tx" /\ iv.hash \in S.rejectedTxns
      THEN EnqueueInv(S, p, invVects, i + 1)
    ELSE EnqueueInv([S EXCEPT !.peerStates[p].requestQueue = Append(@, iv)],
                    p, invVects, i + 1)

\* part_000:1181-1190: a transaction that is not yet in flight is requested
RequestTx(S, p, txHash) ==
  {[S EXCEPT !.requestedTxns = m,
             !.peerStates[p].requestedTxns = @ \cup {txHash},
             !.out.getdataTx = @ \cup {txHash}] :
     m \in limitMap(S.requestedTxns \cup {txHash}, maxRequestedTxns)}

\* part_000:1163-1198: the request queue is drained
RECURSIVE DrainQueue(_, _, _)
DrainQueue(S, p, numRequested) ==
  LET q == S.peerStates[p].requestQueue IN
  IF Len(q) = 0 THEN {S}
  ELSE
    LET iv == Head(q)
        S0 == [S EXCEPT !.peerStates[p].requestQueue = Tail(q)]
        nexts ==
          IF iv.type = "block"
            THEN {<<IF S0.requestedBlocks[iv.hash] = NoPeer
                      THEN PushGetHeadersMsg(S0, p, iv.hash) ELSE S0,
                    numRequested>>}
          ELSE IF iv.hash \notin S0.requestedTxns
            THEN {<<T, numRequested + 1>> : T \in RequestTx(S0, p, iv.hash)}
          ELSE {<<S0, numRequested>>}
    IN UNION {IF r[2] >= MaxInvPerMsg THEN {r[1]} ELSE DrainQueue(r[1], p, r[2]) :
                r \in nexts}

handleInvMsg(S, p, invVects) ==
  IF ~S.peerStates[p].present THEN {[S EXCEPT !.out.res = "unknownpeer"]}
  ELSE
    LET lastBlock == LastBlockIdx(invVects)
        S1 == IF lastBlock # 0 /\ (p # S.syncPeer \/ current(S))
                THEN [S EXCEPT !.peers[p].lastAnnounced = invVects[lastBlock].hash]
                ELSE S
        S2 == IF /\ lastBlock # 0
                 /\ current(S1)
                 /\ InIndex(S1, invVects[lastBlock].hash)
                 /\ InActive(S1, invVects[lastBlock].hash)
                THEN [S1 EXCEPT !.peers[p].lastBlock = invVects[lastBlock].hash]
                ELSE S1
    IN DrainQueue(EnqueueInv(S2, p, invVects, 1), p, 0)

\* ------------------------------------------------------------------ tick
\* part_000:1224-1245: one peer of the scan
ScanPeer(S, p) ==
  LET state == S.peerStates[p]
      stallsince == S.peers[p].stallingSince
  IN
  IF ~state.syncCandidate THEN S
  ELSE IF stallsince # 0 /\ stallsince < S.now - BLOCK_STALLING_TIMEOUT
    THEN Disconnect(S, p)
  ELSE IF Cardinality(state.requestedBlocks) < MAX_BLOCKS_IN_TRANSIT_PER_PEER
    THEN fetchHeaderBlocks(S, p)
  ELSE S

RECURSIVE ScanInOrder(_, _, _)
ScanInOrder(S, order, i) ==
  IF i > Len(order) THEN S
  ELSE ScanInOrder(ScanPeer(S, order[i]), order, i + 1)

\* the orders in which a range over sm.peerStates can visit its keys
ScanOrders(S) ==
  LET present == {q \in Peers : S.peerStates[q].present}
      n == Cardinality(present)
  IN {o \in [1..n -> present] : \A i, j \in 1..n : i # j => o[i] # o[j]}

scanToFetchHeaderBlocks(S) ==
  {ScanInOrder(S, o, 1) : o \in ScanOrders(S)}

\* ------------------------------------------------------------------ steps
\* One step of messagesHandler per action.  The parameters are the sets the
\* contents of the message and the answers of the callbacks are drawn from,
\* so that each specification explores the inputs its claims are about.
Env(isCur, direct, have) ==
  [isCurrent |-> isCur, canDirectFetch |-> direct, haveTx |-> have]

\* the answers of the chain a step can see; one answer when it reads none
EnvChoices(read) == IF read THEN BOOLEAN ELSE {FALSE}

\* the transaction hashes of an inv list
TxOf(invVects) == {invVects[i].hash : i \in {j \in 1..Len(invVects) : invVects[j].type = "tx"}}

NewPeerSync(p, fresh) ==
  /\ ~peerStates[p].present
  /\ \E isCur \in BOOLEAN :
       LET S == [Cur(Env(isCur, FALSE, {})) EXCEPT !.peers[p] = fresh]
       IN \E T \in handleNewPeerMsg(S, p) : Install(T)

NewPeerStep(p, fresh) == NewPeerSync(p, fresh) /\ UNCHANGED loopVars

DonePeerSync(p) ==
  /\ LET S == Cur(Env(FALSE, FALSE, {}))
     IN \E T \in handleDonePeerMsg(S, p) :
          Install([T EXCEPT !.peers[p] = NoPeerObj])

DonePeerStep(p) == DonePeerSync(p) /\ UNCHANGED loopVars

\* the headers messages whose last header is one of lasts; full: the
\* message holds wire.MaxBlockHeadersPerMsg headers
HeaderMsgs(lasts, fulls) ==
  {[kind |-> k, last |-> 0, procOk |-> FALSE, full |-> FALSE] :
     k \in {"empty", "unconnect", "noncont"}}
  \cup {[kind |-> "batch", last |-> l, procOk |-> ok, full |-> fl] :
          l \in lasts, ok \in BOOLEAN, fl \in fulls}

HeadersSync(p, hdr, cap) ==
  /\ hdr.kind = "unconnect" => peerStates[p].unconnectingHeaders < cap
  /\ \E isCur \in EnvChoices(hdr.kind = "batch"), direct \in EnvChoices(hdr.kind = "batch" /\ hdr.procOk) :
       Install(handleHeadersMsg(Cur(Env(isCur, direct, {})), p, hdr))

HeadersStep(p, hdr, cap) == HeadersSync(p, hdr, cap) /\ UNCHANGED loopVars

\* inv vectors: blocks, transactions and, with other, an unsupported type
InvVects(blks, txs, other) ==
  {[type |-> "block", hash |-> h] : h \in blks}
  \cup {[type |-> "tx", hash |-> t] : t \in txs}
  \cup (IF other THEN {[type |-> "other", hash |-> 0]} ELSE {})

\* the inv lists of one message: at most MaxInvPerMsg entries
InvLists(blks, txs, other) ==
  UNION {[1..n -> InvVects(blks, txs, other)] : n \in 1..MaxInvPerMsg}

InvSync(p, invVects) ==
  /\ \E have \in SUBSET TxOf(invVects), isCur \in EnvChoices(LastBlockIdx(invVects) # 0) :
       \E T \in handleInvMsg(Cur(Env(isCur, FALSE, have)), p, invVects) :
         Install(T)

InvStep(p, invVects) == InvSync(p, invVects) /\ UNCHANGED loopVars

BlockSync(p, h, outs) ==
  /\ LET S == Cur(Env(FALSE, FALSE, {})) IN
     \E outcome \in BlockOutcomes(S, h) \cap outs :
       Install(handleBlockMsg(S, p, h, outcome))

BlockStep(p, h, outs) == BlockSync(p, h, outs) /\ UNCHANGED loopVars

TxSync(p, t, rej, err) ==
  /\ \E have \in BOOLEAN :
       LET S == Cur(Env(FALSE, FALSE, IF have THEN {t} ELSE {}))
       IN \E T \in handleTxMsg(S, p, t, [rejectTxs |-> rej, err |-> err]) : Install(T)

TxStep(p, t, rej, err) == TxSync(p, t, rej, err) /\ UNCHANGED loopVars

\* the error ProcessTransactionCallBack returns with a reject list
ErrOf(t, rej) == IF t \in rej THEN "reject" ELSE "none"

\* a block mined locally is built on the tip
MinedBlockSync(h, outs) ==
  /\ h = TipOf(hasData, 0) + 1
  /\ LET S == Cur(Env(FALSE, FALSE, {})) IN
     \E outcome \in BlockOutcomes(S, h) \cap outs :
       Install(handleMinedBlockMsg(S, h, outcome))

MinedBlockStep(h, outs) == MinedBlockSync(h, outs) /\ UNCHANGED loopVars

FetchTickSync ==
  /\ \E T \in scanToFetchHeaderBlocks(Cur(Env(FALSE, FALSE, {}))) :
       Install(T)

FetchTickStep == FetchTickSync /\ UNCHANGED loopVars

\* IsInitialBlockDownload latches to false
LeaveIBD ==
  /\ ibd
  /\ ibd' = FALSE
  /\ UNCHANGED <<rejectedTxns, requestedTxns, requestedBlocks, syncPeer, peerStates,
                 peers, hasData, bestHeader, invalidFrom, regtest, now, side>>
  /\ UNCHANGED loopVars

\* part_000:1568-1589 New: empty maps, no sync peer, nothing started
InitState ==
  /\ rejectedTxns = {}
  /\ requestedTxns = {}
  /\ requestedBlocks = [h \in Blocks |-> NoPeer]
  /\ syncPeer = NoPeer
  /\ peerStates = [p \in Peers |-> AbsentState]
  /\ peers = [p \in Peers |-> NoPeerObj]
  /\ hasData = {}
  /\ bestHeader = 0
  /\ invalidFrom = NilIndex
  /\ ibd = TRUE
  /\ regtest \in BOOLEAN
  /\ now = 1

\* the local chain is the genesis block
InitSync == InitState /\ side = 0

InitLoop ==
  /\ started = 0
  /\ launched = 0
  /\ shutdown = 0
  /\ quit = FALSE
  /\ queue = <<>>
  /\ worker = "none"
  /\ calls = <<>>

Init == InitSync /\ InitLoop

\* ---- Spec: peers, headers, block download.  Every peer has completed the
\* handshake and reports the height MaxHeight; peer 1 is a full node on
\* localhost, the others may also be neither.  Headers messages and block
\* announcements end at the best block MaxHeight.  Inputs that change only
\* what a step sends (a full headers message, an inv entry of an unsupported
\* type, an error of ProcessBlockCallBack that is no rejection) are left to
\* the formulas about them; transactions are the subject of SpecTx and
\* SpecMix.
PeerChoices(p) ==
  {FreshPeer(MaxHeight, TRUE, c, c) : c \in (IF p = 1 THEN {TRUE} ELSE BOOLEAN)}

Next ==
  \/ \E p \in Peers : \E fresh \in PeerChoices(p) : NewPeerStep(p, fresh)
  \/ \E p \in Peers : DonePeerStep(p)
  \/ \E p \in Peers, hdr \in HeaderMsgs({MaxHeight}, {FALSE}) : HeadersStep(p, hdr, MaxUnconnecting)
  \/ \E p \in Peers, invVects \in InvLists({MaxHeight}, {}, FALSE) : InvStep(p, invVects)
  \/ \E p \in Peers, h \in Blocks : BlockStep(p, h, {"ok", "reject"})
  \/ \E h \in Blocks : MinedBlockStep(h, {"ok", "reject"})
  \/ FetchTickStep
  \/ LeaveIBD

Spec == Init /\ [][Next]_vars

\* the state a handler starts from when the chain is asked nothing
Here == Cur(Env(FALSE, FALSE, {}))

\* ---- SpecTx: transaction relay.  Every peer is a full node on localhost
\* that has completed the handshake.  Peers announce and send the hashes
\* 1..NumTxReq; ProcessTransactionCallBack rejects nothing, the transaction
\* itself, or the transaction together with every hash of 1..NumTxWide
\* (orphans that depended on it).  A block is processed when it was not
\* requested only on the regression test chain.
TxPeer == FreshPeer(MaxHeightMix, TRUE, TRUE, TRUE)

RejectLists(t) == {{}, {t}, TxHashes}

NextTx ==
  \/ \E p \in Peers : NewPeerStep(p, TxPeer)
  \/ \E p \in Peers : DonePeerStep(p)
  \/ \E p \in Peers, invVects \in InvLists({}, 1..NumTxReq, FALSE) : InvStep(p, invVects)
  \/ \E p \in Peers, h \in 1..MaxHeightMix : BlockStep(p, h, {"ok", "reject"})
  \/ \E p \in Peers, t \in 1..NumTxReq : \E rej \in RejectLists(t) :
       TxStep(p, t, rej, ErrOf(t, rej))

SpecTx == Init /\ [][NextTx]_vars

\* ---- SpecMix: every handler on a chain of MaxHeightMix blocks with the
\* transaction hashes 1..NumTx, so that block and transaction requests are
\* in flight together.
NextMix ==
  \/ \E p \in Peers : NewPeerStep(p, TxPeer)
  \/ \E p \in Peers : DonePeerStep(p)
  \/ \E p \in Peers, hdr \in HeaderMsgs({MaxHeightMix}, BOOLEAN) : HeadersStep(p, hdr, MaxUnconnecting)
  \/ \E p \in Peers, invVects \in InvLists({MaxHeightMix}, 1..NumTx, FALSE) : InvStep(p, invVects)
  \/ \E p \in Peers, h \in 1..MaxHeightMix : BlockStep(p, h, {"ok", "reject", "error"})
  \/ \E p \in Peers, t \in 1..NumTx, rej \in SUBSET (1..NumTx) : TxStep(p, t, rej, ErrOf(t, rej))
  \/ \E h \in 1..MaxHeightMix : MinedBlockStep(h, {"ok", "reject", "error"})
  \/ FetchTickStep
  \/ LeaveIBD

SpecMix == Init /\ [][NextMix]_vars

\* ---- SpecStall: block download with a clock.  Like Spec, and time.Now()
\* advances between the steps of the loop up to MaxTime, so that a stalling
\* clock armed by fetchHeaderBlocks can run out.
Tick ==
  /\ now < MaxTime
  /\ now' = now + 1
  /\ UNCHANGED <<rejectedTxns, requestedTxns, requestedBlocks, syncPeer, peerStates,
                 peers, hasData, bestHeader, invalidFrom, ibd, regtest, side>>
  /\ UNCHANGED loopVars

NextStall ==
  \/ \E p \in Peers : \E fresh \in PeerChoices(p) : NewPeerStep(p, fresh)
  \/ \E p \in Peers : DonePeerStep(p)
  \/ \E p \in Peers, hdr \in HeaderMsgs({MaxHeight}, {FALSE}) : HeadersStep(p, hdr, MaxUnconnecting)
  \/ \E p \in Peers, h \in Blocks : BlockStep(p, h, {"ok", "reject"})
  \/ FetchTickStep
  \/ Tick

SpecStall == Init /\ [][NextStall]_vars

\* ---- SpecFork: block download by a node that starts on a branch of up to
\* MaxSide blocks which no peer has.  The peers are those of Spec; their
\* headers messages end at a block of the height of the branch or below.
InitFork == InitState /\ side \in 1..MaxSide /\ InitLoop

NextFork ==
  \/ \E p \in Peers : \E fresh \in PeerChoices(p) : NewPeerStep(p, fresh)
  \/ \E p \in Peers : DonePeerStep(p)
  \/ \E p \in Peers, hdr \in HeaderMsgs(1..MaxSide, {FALSE}) : HeadersStep(p, hdr, MaxUnconnecting)
  \/ \E p \in Peers, h \in 1..MaxSide : BlockStep(p, h, {"ok", "reject"})
  \/ FetchTickStep
  \/ LeaveIBD

SpecFork == InitFork /\ [][NextFork]_vars

\* ---- SpecLoop: the API, the queue and the worker.  calls[i] is the i-th
\* API call of the run: its kind, where its goroutine stands, whether it
\* began after Stop had set sm.shutdown, how often its reply channel was
\* signalled, and (Pause) whether the caller has closed the unpause channel.
\* pc: "check" before the load of sm.shutdown, "send" before the send on
\* processBusinessChan, "queued" after the send, "dropped" after the return
\* of the shutdown branch, "answered" after the receive from the reply
\* channel.  queue holds the indices of the calls whose message is queued.
\* Every message is about peer LoopPeer, transaction 1 or the block on top
\* of the tip; inv messages announce transaction 1, headers messages are
\* empty.
LoopPeer == 1

\* the calls of part_000:1409-1508 that load sm.shutdown first
CheckedKinds ==
  {"NewPeer", "DonePeer", "QueueTx", "QueueBlock", "QueueInv", "QueueHeaders",
   "QueueMessgePool", "QueueGetBlocks", "QueuePing"}

\* the calls that do not: part_000:1430-1432, 1538-1560
UncheckedKinds == {"QueueMinedBlock", "SyncPeerID", "IsCurrent", "Pause"}

ApiKinds == CheckedKinds \cup UncheckedKinds

\* the calls whose message carries a reply channel
ReplyKinds ==
  {"QueueTx", "QueueBlock", "QueueMinedBlock", "QueueMessgePool", "QueueGetBlocks",
   "QueuePing", "SyncPeerID", "IsCurrent"}

\* the calls that receive from their reply channel before they return
WaitingKinds == {"SyncPeerID", "IsCurrent"}

\* the messages messagesHandler answers on their reply channel:
\* part_000:1271-1277, 1285-1294, 1299-1307, 1313-1314 with 665-669
AnsweredKinds ==
  {"QueueTx", "QueueBlock", "QueueMessgePool", "QueueGetBlocks", "SyncPeerID",
   "IsCurrent", "QueueMinedBlock"}

Range(q) == {q[i] : i \in DOMAIN q}

\* the message of call i was taken from the queue by the worker
Handled(i) == calls[i].pc \in {"queued", "answered"} /\ i \notin Range(queue)

\* Start without the return of part_000:1513-1515: every call launches
StartEveryCall ==
  /\ started < MaxStarts
  /\ started' = started + 1
  /\ launched' = launched + 1
  /\ worker' = "running"
  /\ UNCHANGED <<shutdown, quit, queue, calls>>
  /\ UNCHANGED syncVars

\* part_000:1511-1520
Start ==
  /\ started < MaxStarts
  /\ started' = started + 1
  /\ launched' = IF started + 1 = 1 THEN launched + 1 ELSE launched
  /\ worker' = IF started + 1 = 1 THEN "running" ELSE worker
  /\ UNCHANGED <<shutdown, quit, queue, calls>>
  /\ UNCHANGED syncVars

\* part_000:1524-1535 up to close(sm.quit)
Stop ==
  /\ shutdown < MaxStops
  /\ shutdown' = shutdown + 1
  /\ quit' = IF shutdown + 1 = 1 THEN TRUE ELSE quit
  /\ UNCHANGED <<started, launched, queue, worker, calls>>
  /\ UNCHANGED syncVars

\* a goroutine enters an API call; the server reports a peer once
Begin(kind) ==
  /\ Len(calls) < MaxCalls
  /\ kind = "NewPeer" => \A i \in DOMAIN calls : calls[i].kind # "NewPeer"
  /\ kind = "DonePeer" =>
       /\ \E i \in DOMAIN calls : calls[i].kind = "NewPeer"
       /\ \A i \in DOMAIN calls : calls[i].kind # "DonePeer"
  /\ calls' = Append(calls,
       [kind |-> kind,
        pc |-> IF kind \in CheckedKinds THEN "check" ELSE "send",
        afterStop |-> shutdown # 0,
        replies |-> 0,
        released |-> FALSE])
  /\ UNCHANGED <<started, launched, shutdown, quit, queue, worker>>
  /\ UNCHANGED syncVars

\* atomic.LoadInt32(&sm.shutdown) != 0: signal done, if any, and return
Check(i) ==
  /\ calls[i].pc = "check"
  /\ calls' =
       IF shutdown # 0
         THEN [calls EXCEPT ![i].pc = "dropped",
                            ![i].replies =
                               IF calls[i].kind \in ReplyKinds THEN @ + 1 ELSE @]
         ELSE [calls EXCEPT ![i].pc = "send"]
  /\ UNCHANGED <<started, launched, shutdown, quit, queue, worker>>
  /\ UNCHANGED syncVars

\* sm.processBusinessChan <- msg: blocks while the buffer is full
Send(i) ==
  /\ calls[i].pc = "send"
  /\ Len(queue) < QueueCap
  /\ queue' = Append(queue, i)
  /\ calls' = [calls EXCEPT ![i].pc = "queued"]
  /\ UNCHANGED <<started, launched, shutdown, quit, worker>>
  /\ UNCHANGED syncVars

\* return <-reply of SyncPeerID and IsCurrent
Receive(i) ==
  /\ calls[i].kind \in WaitingKinds
  /\ calls[i].pc = "queued"
  /\ calls[i].replies > 0
  /\ calls' = [calls EXCEPT ![i].pc = "answered"]
  /\ UNCHANGED <<started, launched, shutdown, quit, queue, worker>>
  /\ UNCHANGED syncVars

\* the caller of Pause closes the channel it was given
Unpause(i) ==
  /\ calls[i].kind = "Pause"
  /\ calls[i].pc = "queued"
  /\ ~calls[i].released
  /\ calls' = [calls EXCEPT ![i].released = TRUE]
  /\ worker' = IF worker = "paused" /\ Handled(i) THEN "running" ELSE worker
  /\ UNCHANGED <<started, launched, shutdown, quit, queue>>
  /\ UNCHANGED syncVars

\* the sync state after the handler of a message of this kind
HandleSync(kind) ==
  CASE kind = "NewPeer" -> NewPeerSync(LoopPeer, TxPeer)
    [] kind = "DonePeer" -> DonePeerSync(LoopPeer)
    [] kind = "QueueTx" -> TxSync(LoopPeer, 1, {}, "none")
    [] kind = "QueueBlock" ->
         BlockSync(LoopPeer, Min(Tip(Here) + 1, MaxHeight), {"ok", "reject"})
    [] kind = "QueueMinedBlock" ->
         MinedBlockSync(Tip(Here) + 1, {"ok", "reject"})
    [] kind = "QueueInv" -> InvSync(LoopPeer, <<[type |-> "tx", hash |-> 1]>>)
    [] kind = "QueueHeaders" ->
         HeadersSync(LoopPeer, [kind |-> "empty", last |-> 0, procOk |-> FALSE,
                                full |-> FALSE], 0)
    [] OTHER -> UNCHANGED syncVars

\* the dispatch of messagesHandler without the wait of part_000:1309-1311:
\* a message is taken from the queue while a pause is in force
HandleWhilePaused ==
  /\ worker \in {"running", "paused"}
  /\ Len(queue) > 0
  /\ LET i == Head(queue)
         kind == calls[i].kind
     IN /\ HandleSync(kind)
        /\ calls' = [calls EXCEPT ![i].replies =
                        IF kind \in AnsweredKinds THEN @ + 1 ELSE @]
        /\ worker' = IF kind = "Pause" /\ ~calls[i].released
                       THEN "paused" ELSE worker
  /\ queue' = Tail(queue)
  /\ UNCHANGED <<started, launched, shutdown, quit>>

\* part_000:1266-1318: one message is received and dispatched on its type;
\* pingMsg has no case and ends in the default branch
Handle ==
  /\ worker = "running"
  /\ Len(queue) > 0
  /\ LET i == Head(queue)
         kind == calls[i].kind
     IN /\ HandleSync(kind)
        /\ calls' = [calls EXCEPT ![i].replies =
                        IF kind \in AnsweredKinds THEN @ + 1 ELSE @]
        /\ worker' = IF kind = "Pause" /\ ~calls[i].released
                       THEN "paused" ELSE worker
  /\ queue' = Tail(queue)
  /\ UNCHANGED <<started, launched, shutdown, quit>>

\* part_000:1262-1263
WorkerTick ==
  /\ worker = "running"
  /\ FetchTickSync
  /\ UNCHANGED loopVars

\* part_000:1320-1325
WorkerQuit ==
  /\ worker = "running"
  /\ quit
  /\ worker' = "done"
  /\ UNCHANGED <<started, launched, shutdown, quit, queue, calls>>
  /\ UNCHANGED syncVars

NextLoop ==
  \/ Start
  \/ Stop
  \/ \E kind \in ApiKinds : Begin(kind)
  \/ \E i \in DOMAIN calls : Check(i)
  \/ \E i \in DOMAIN calls : Send(i)
  \/ \E i \in DOMAIN calls : Receive(i)
  \/ \E i \in DOMAIN calls : Unpause(i)
  \/ Handle
  \/ WorkerTick
  \/ WorkerQuit

SpecLoop == Init /\ [][NextLoop]_vars

\* ================================================================ claims

\* ---- C1 (Spec).  After every step, a hash h is in sm.requestedBlocks
\* mapped to peer p if and only if p is the one and only peer whose
\* peerSyncState.requestedBlocks contains h.
C1_RequestedBlocksAgree ==
  \A h \in Blocks, p \in Peers :
    (requestedBlocks[h] = p)
      <=> (/\ h \in peerStates[p].requestedBlocks
           /\ \A q \in Peers \ {p} : h \notin peerStates[q].requestedBlocks)

\* ---- C2 (Spec).  After every step, every peer's requestedBlocks holds at
\* most MAX_BLOCKS_IN_TRANSIT_PER_PEER hashes, whether the blocks were
\* requested by fetchHeaderBlocks or by fetchBlocks after a headers message.
C2_InTransitCap ==
  \A p \in Peers :
    Cardinality(peerStates[p].requestedBlocks) <= MAX_BLOCKS_IN_TRANSIT_PER_PEER

\* C2 witness: a sync candidate holds MAX_BLOCKS_IN_TRANSIT_PER_PEER requests
\* while a further block of the header chain is neither stored nor requested.
C2_AtCapWithMore ==
  \E p \in Peers, h \in Blocks :
    /\ peerStates[p].syncCandidate
    /\ Cardinality(peerStates[p].requestedBlocks) = MAX_BLOCKS_IN_TRANSIT_PER_PEER
    /\ h <= bestHeader
    /\ h \notin hasData
    /\ requestedBlocks[h] = NoPeer

\* ---- C5 (Spec).  After every step, if sm.syncPeer is set then it is a key
\* of sm.peerStates and its syncCandidate flag is true.
C5_SyncPeerIsCandidate ==
  syncPeer # NoPeer =>
    /\ peerStates[syncPeer].present
    /\ peerStates[syncPeer].syncCandidate

\* ---- C6 (SpecTx).  After every step, sm.rejectedTxns holds at most
\* maxRejectedTxns hashes, for every size of the reject list of one
\* ProcessTransactionCallBack call.
C6_RejectedCap == Cardinality(rejectedTxns) <= maxRejectedTxns

\* ---- C7 (SpecTx).  After every step, sm.requestedTxns holds at most
\* maxRequestedTxns hashes, for any sequence of inv messages of any peers.
C7_RequestedCap == Cardinality(requestedTxns) <= maxRequestedTxns

\* C7 witness: sm.requestedTxns is as full as limitMap leaves it and a
\* transaction requested from a peer has been evicted from it.
C7_Evicted ==
  /\ Cardinality(requestedTxns) = maxRequestedTxns - 1
  /\ \E p \in Peers : \E t \in peerStates[p].requestedTxns : t \notin requestedTxns

\* ---- C8 (SpecMix).  After DonePeer(p) is handled, p is no key of
\* sm.peerStates, no entry of sm.requestedBlocks maps to p, and every hash
\* that was in p's requestedTxns or requestedBlocks is gone from
\* sm.requestedTxns or sm.requestedBlocks.
C8_DonePeerPurges ==
  \A p \in Peers : \A T \in handleDonePeerMsg(Here, p) :
    /\ ~T.peerStates[p].present
    /\ \A h \in Blocks : T.requestedBlocks[h] # p
    /\ \A h \in peerStates[p].requestedBlocks : T.requestedBlocks[h] = NoPeer
    /\ peerStates[p].requestedTxns \cap T.requestedTxns = {}

\* C8 witness: DonePeer of the sync peer, which has a block and a
\* transaction in flight, removes both from the indices of the manager.
C8_DonePeerActs ==
  \E p \in Peers : \E T \in handleDonePeerMsg(Here, p) :
    /\ syncPeer = p
    /\ peerStates[p].requestedBlocks # {}
    /\ peerStates[p].requestedTxns \cap requestedTxns # {}
    /\ T.requestedBlocks # requestedBlocks
    /\ T.requestedTxns # requestedTxns

\* ---- C9 (SpecMix).  Whenever a new block is processed without error, in a
\* block message of a peer or as a locally mined block, sm.rejectedTxns is
\* empty at the end of that step.
C9_RejectedClearedByBlock ==
  /\ \A p \in Peers, h \in 1..MaxHeightMix :
       (peerStates[p].present /\ "ok" \in BlockOutcomes(Here, h))
         => LET T == handleBlockMsg(Here, p, h, "ok")
            IN T.out.res = "ok" => T.rejectedTxns = {}
  /\ \A h \in 1..MaxHeightMix :
       (h = Tip(Here) + 1 /\ "ok" \in BlockOutcomes(Here, h))
         => handleMinedBlockMsg(Here, h, "ok").rejectedTxns = {}

C3_RepliedOnce ==
  \A i \in DOMAIN calls :
    (calls[i].kind \in ReplyKinds /\ Handled(i)) => calls[i].replies = 1

\* ---- C4 (SpecLoop).  A call of the API that began after Stop had set
\* sm.shutdown puts nothing on the queue, and when it carries a reply
\* channel that channel is signalled when the call returns.
C4_ShutdownDrops ==
  \A i \in DOMAIN calls :
    calls[i].afterStop =>
      /\ calls[i].pc \notin {"queued", "answered"}
      /\ (calls[i].pc = "dropped" /\ calls[i].kind \in ReplyKinds)
           => calls[i].replies = 1

\* ---- C11 (Spec).  sm.syncPeer changes only in a NewPeer step or in the
\* DonePeer step of the current sync peer: a step that handles a headers,
\* inv, block, tx or mined block message or the fetch tick leaves it as it
\* was.
C11_SyncPeerChangesOnlyByPeers ==
  [][syncPeer' # syncPeer =>
       \/ \E p \in Peers : \E fresh \in PeerChoices(p) : NewPeerStep(p, fresh)
       \/ syncPeer # NoPeer /\ DonePeerStep(syncPeer)]_vars

\* ---- C12 (SpecTx).  When the same inv message of the same peer is handled
\* twice in a row, the second handling leaves sm.requestedTxns, the peer's
\* requestedTxns and requestQueue, sm.requestedBlocks, every peer's
\* requestedBlocks and sm.syncPeer as the first handling left them.
C12_InvTwiceSameState ==
  \A p \in Peers, invVects \in InvLists({}, 1..NumTxReq, FALSE) :
    \A have \in SUBSET TxOf(invVects) :
      \A T1 \in handleInvMsg(Cur(Env(FALSE, FALSE, have)), p, invVects) :
        \A T2 \in handleInvMsg([T1 EXCEPT !.out = NoOut], p, invVects) :
          /\ T2.requestedTxns = T1.requestedTxns
          /\ T2.peerStates[p].requestedTxns = T1.peerStates[p].requestedTxns
          /\ T2.peerStates[p].requestQueue = T1.peerStates[p].requestQueue
          /\ T2.requestedBlocks = T1.requestedBlocks
          /\ \A q \in Peers :
               T2.peerStates[q].requestedBlocks = T1.peerStates[q].requestedBlocks
          /\ T2.syncPeer = T1.syncPeer

\* ---- C13 (SpecStall).  When a peer owns blocks in flight and its stalling
\* clock has been running for more than BLOCK_STALLING_TIMEOUT, the next
\* fetch tick disconnects that peer and requests no block from it.
C13_StalledPeerDisconnected ==
  \A p \in Peers :
    (/\ peerStates[p].requestedBlocks # {}
     /\ peers[p].stallingSince # 0
     /\ now - peers[p].stallingSince > BLOCK_STALLING_TIMEOUT)
      => \A T \in scanToFetchHeaderBlocks(Here) :
           /\ p \in T.out.disconnect
           /\ \A i \in 1..Len(T.out.getdataBlk) : T.out.getdataBlk[i][1] # p

\* ---- C14 (Spec).  Every headers message of a connected peer whose first
\* header has no parent in the block index adds one to the peer's
\* unconnectingHeaders, and the ban score is raised in that step exactly
\* when the counter has reached a multiple of MAX_UNCONNECTING_HEADERS.
C14_UnconnectingCounted ==
  \A p \in Peers :
    peerStates[p].present =>
      LET T == handleHeadersMsg(Here, p, [kind |-> "unconnect", last |-> 0,
                                          procOk |-> FALSE, full |-> FALSE])
          n == peerStates[p].unconnectingHeaders + 1
      IN /\ T.peerStates[p].unconnectingHeaders = n
         /\ (T.out.res = "banscore") <=> (n % MAX_UNCONNECTING_HEADERS = 0)

\* ---- C15 (SpecMix).  On a chain that is not the regression test chain, a
\* block message whose hash is not in the requestedBlocks of the sending
\* peer gets the peer disconnected, ProcessBlockCallBack is not called (the
\* chain is as before), and sm.requestedBlocks, every peer's
\* requestedBlocks, sm.rejectedTxns and the peer's stallingSince are
\* unchanged.
C15_UnrequestedBlockDropped ==
  \A p \in Peers, h \in 1..MaxHeightMix :
    (/\ ~regtest
     /\ peerStates[p].present
     /\ h \notin peerStates[p].requestedBlocks)
      => \A outcome \in {"ok", "reject", "error", "invalid"} :
           LET T == handleBlockMsg(Here, p, h, outcome) IN
           /\ p \in T.out.disconnect
           /\ T.out.res = "unrequested"
           /\ T.hasData = hasData
           /\ T.bestHeader = bestHeader
           /\ T.invalidFrom = invalidFrom
           /\ T.requestedBlocks = requestedBlocks
           /\ \A q \in Peers :
                T.peerStates[q].requestedBlocks = peerStates[q].requestedBlocks
           /\ T.rejectedTxns = rejectedTxns
           /\ T.peers[p].stallingSince = peers[p].stallingSince

\* C15 witness: off the regression test chain a peer sends a block that
\* another peer was asked for, while transactions are marked rejected and
\* the chain would accept the block; the peer is disconnected.
C15_UnrequestedSent ==
  \E p \in Peers, h \in 1..MaxHeightMix :
    /\ ~regtest
    /\ peerStates[p].present
    /\ h \notin peerStates[p].requestedBlocks
    /\ requestedBlocks[h] \notin {NoPeer, p}
    /\ rejectedTxns # {}
    /\ "ok" \in BlockOutcomes(Here, h)
    /\ p \in handleBlockMsg(Here, p, h, "ok").out.disconnect

\* ---- C16 (Spec), as stated.  Whenever a handler enters startSync with no
\* sync peer set (NewPeer of a candidate while sm.syncPeer is nil,
\* part_000:400-403; DonePeer of the sync peer, part_000:450-452), the peer
\* it elects is a key of sm.peerStates, is a sync candidate and has a last
\* block strictly above the tip; without such a peer sm.syncPeer stays nil.
C16_ElectsStrictlyAhead ==
  LET ahead(T) == {q \in Peers : /\ T.peerStates[q].present
                                 /\ T.peerStates[q].syncCandidate
                                 /\ T.peers[q].lastBlock > Tip(T)}
      asStated(T) == /\ T.syncPeer # NoPeer => T.syncPeer \in ahead(T)
                     /\ ahead(T) = {} => T.syncPeer = NoPeer
  IN /\ \A p \in Peers :
          (syncPeer = p /\ peerStates[p].present)
            => \A T \in handleDonePeerMsg(Here, p) : asStated(T)
     /\ \A p \in Peers : \A fresh \in PeerChoices(p) :
          LET S == [Here EXCEPT !.peers[p] = fresh] IN
          (syncPeer = NoPeer /\ ~peerStates[p].present /\ isSyncCandidate(S, p))
            => \A T \in handleNewPeerMsg(S, p) : asStated(T)

\* ---- C16 (Spec), amended.  Whenever a handler enters startSync with no
\* sync peer set, the peer it elects is a key of sm.peerStates, is a sync
\* candidate and has a last block that is not below the tip; sm.syncPeer
\* stays nil exactly when there is no such peer.
C16_ElectsNotBehind ==
  LET level(T) == {q \in Peers : /\ T.peerStates[q].present
                                 /\ T.peerStates[q].syncCandidate
                                 /\ T.peers[q].lastBlock >= Tip(T)}
      amended(T) == /\ T.syncPeer # NoPeer => T.syncPeer \in level(T)
                    /\ (level(T) = {}) <=> (T.syncPeer = NoPeer)
  IN /\ \A p \in Peers :
          (syncPeer = p /\ peerStates[p].present)
            => \A T \in handleDonePeerMsg(Here, p) : amended(T)
     /\ \A p \in Peers : \A fresh \in PeerChoices(p) :
          LET S == [Here EXCEPT !.peers[p] = fresh] IN
          (syncPeer = NoPeer /\ ~peerStates[p].present /\ isSyncCandidate(S, p))
            => \A T \in handleNewPeerMsg(S, p) : amended(T)

\* C16 witness: the sync peer leaves and startSync elects the other sync
\* candidate, whose last block equals the tip.
C16_LevelPeerElected ==
  \E p \in Peers, q \in Peers :
    /\ syncPeer = p
    /\ q # p
    /\ peerStates[p].present
    /\ peerStates[q].syncCandidate
    /\ Tip(Here) > 0
    /\ peers[q].lastBlock = Tip(Here)
    /\ \E T \in handleDonePeerMsg(Here, p) : T.syncPeer = q

C18_RejectedRequestedAfterBlock ==
  \A p \in Peers, h \in 1..MaxHeightMix :
    (peerStates[p].present /\ "ok" \in BlockOutcomes(Here, h)) =>
      LET B == handleBlockMsg(Here, p, h, "ok") IN
      B.out.res = "ok" =>
        /\ B.rejectedTxns = {}
        /\ \A q \in Peers, invVects \in InvLists({}, 1..NumTxReq, FALSE) :
             \A t \in TxOf(invVects) \cap rejectedTxns :
               B.peerStates[q].present =>
                 \A T \in handleInvMsg([B EXCEPT !.out = NoOut], q, invVects) :
                   /\ t \in T.out.getdataTx
                   /\ t \in T.requestedTxns
                   /\ t \in T.peerStates[q].requestedTxns

\* ---- C19 (Spec).  An inv step changes neither sm.requestedBlocks nor the
\* requestedBlocks of any peer; for every block it announces that the node
\* does not have, a getheaders that stops at the hash is pushed to the
\* announcing peer exactly when the hash is not in sm.requestedBlocks; and
\* of two peers that announced the same block at most one holds it in its
\* requestedBlocks.
C19_InvLeavesBlockRequests ==
  /\ \A p \in Peers, invVects \in InvLists(Blocks, {}, FALSE), isCur \in BOOLEAN :
       peerStates[p].present =>
         \A T \in handleInvMsg(Cur(Env(isCur, FALSE, {})), p, invVects) :
           /\ T.requestedBlocks = requestedBlocks
           /\ \A q \in Peers :
                T.peerStates[q].requestedBlocks = peerStates[q].requestedBlocks
           /\ \A i \in 1..Len(invVects) :
                ~haveInventory(Here, invVects[i]) =>
                  (<<p, invVects[i].hash>> \in Range(T.out.getheaders)
                     <=> requestedBlocks[invVects[i].hash] = NoPeer)
  /\ \A p \in Peers, q \in Peers, h \in Blocks :
       (/\ p # q
        /\ peers[p].lastAnnounced = h
        /\ peers[q].lastAnnounced = h)
         => ~(/\ h \in peerStates[p].requestedBlocks
              /\ h \in peerStates[q].requestedBlocks)

\* ---- C20 (SpecTx).  After every step, the requestedTxns of every peer
\* holds at most maxRequestedTxns hashes, however many inv messages with
\* new transaction hashes the peer has sent without delivering them.
C20_PeerRequestedCap ==
  \A p \in Peers : Cardinality(peerStates[p].requestedTxns) <= maxRequestedTxns

C22_StoppedMeansWorkerGone ==
  shutdown >= 2 => worker \notin {"running", "paused"}

\* ---- C23 (Spec), as stated.  During initial block download with no sync
\* peer, NewPeer of a peer that has the full-node service bit, has completed
\* the handshake and reports a last block above the tip makes that peer the
\* sync peer and pushes one getheaders to it, with the zero stop hash, and
\* no other.
C23_NewPeerElected ==
  \A p \in Peers, lb \in 0..MaxHeight, lh \in BOOLEAN, isCur \in BOOLEAN :
    LET S == [Cur(Env(isCur, FALSE, {})) EXCEPT !.peers[p] = FreshPeer(lb, TRUE, TRUE, lh)]
    IN (/\ ibd
        /\ syncPeer = NoPeer
        /\ ~peerStates[p].present
        /\ lb > Tip(S))
         => \A T \in handleNewPeerMsg(S, p) :
              /\ T.syncPeer = p
              /\ T.out.getheaders = <<(<<p, zeroHash>>)>>
\* ---- C23 (Spec), amended.  The same, for a peer that isSyncCandidate
\* accepts (on the regression test chain a peer on localhost, whatever its
\* service bits) and while no other sync candidate with a last block at or
\* above the tip is connected: the range of startSync may leave any such
\* candidate in bestPeer.
C23_CandidateElected ==
  \A p \in Peers, lb \in 0..MaxHeight, lh \in BOOLEAN, isCur \in BOOLEAN :
    LET S == [Cur(Env(isCur, FALSE, {})) EXCEPT !.peers[p] = FreshPeer(lb, TRUE, TRUE, lh)]
    IN (/\ ibd
        /\ syncPeer = NoPeer
        /\ ~peerStates[p].present
        /\ lb > Tip(S)
        /\ regtest => lh
        /\ \A q \in Peers \ {p} :
             ~(/\ peerStates[q].present
               /\ peerStates[q].syncCandidate
               /\ peers[q].lastBlock >= Tip(S)))
         => \A T \in handleNewPeerMsg(S, p) :
              /\ T.syncPeer = p
              /\ T.out.getheaders = <<(<<p, zeroHash>>)>>

\* C23 witness: during initial block download, with a stored block, a peer
\* connected and no sync peer, the admission of a full node above the tip
\* elects it.
C23_ElectedNextToPeer ==
  \E p \in Peers, q \in Peers :
    LET S == [Here EXCEPT !.peers[p] = FreshPeer(MaxHeight, TRUE, TRUE, TRUE)]
    IN /\ ibd
       /\ syncPeer = NoPeer
       /\ ~peerStates[p].present
       /\ peerStates[q].present
       /\ Tip(S) > 0
       /\ MaxHeight > Tip(S)
       /\ \A T \in handleNewPeerMsg(S, p) : T.syncPeer = p
\* ---- C24 (Spec).  After the step that handles a block message of peer p
\* for a hash that was requested from p, the hash is neither in p's
\* requestedBlocks nor in sm.requestedBlocks and p's stallingSince is 0,
\* whether ProcessBlockCallBack accepted the block or returned an error.
C24_DeliveredBlockLeavesFlight ==
  \A p \in Peers, h \in Blocks :
    (peerStates[p].present /\ h \in peerStates[p].requestedBlocks)
      => \A outcome \in BlockOutcomes(Here, h) :
           LET T == handleBlockMsg(Here, p, h, outcome) IN
           /\ h \notin T.peerStates[p].requestedBlocks
           /\ T.requestedBlocks[h] = NoPeer
           /\ T.peers[p].stallingSince = 0
\* ---- C25 (Spec).  Every block fetchHeaderBlocks(peer) puts into its
\* getdata is requested from that peer, has a height of at most
\* nWindowEnd = pindexWalk.Height + BLOCK_DOWNLOAD_WINDOW and of at most the
\* height of the best block known of the peer, had no data and was not in
\* sm.requestedBlocks; and when the block just above the window is within
\* the peer's chain, has no data and is not in flight, the walk has ended
\* without a request for it.
C25_FetchInsideWindow ==
  \A p \in Peers :
    peerStates[p].present =>
      LET T == fetchHeaderBlocks(Here, p)
          sp == syncPoints(Here, p)
          gd == T.out.getdataBlk
      IN Len(gd) > 0 =>
           /\ sp.walk # NilIndex
           /\ \A i \in 1..Len(gd) :
                /\ gd[i][1] = p
                /\ gd[i][2] <= sp.walk + BLOCK_DOWNLOAD_WINDOW
                /\ gd[i][2] <= sp.best
                /\ ~HasData(Here, gd[i][2])
                /\ requestedBlocks[gd[i][2]] = NoPeer
                /\ T.requestedBlocks[gd[i][2]] = p
           /\ \A h \in Blocks :
                (h > sp.walk + BLOCK_DOWNLOAD_WINDOW) =>
                  T.requestedBlocks[h] = requestedBlocks[h]

\* C25 witness: fetchHeaderBlocks requests a block for a peer whose chain
\* goes beyond the window, where the block just above the window has no
\* data and is not in flight.
C25_FetchBelowFreeBlock ==
  \E p \in Peers :
    LET T == fetchHeaderBlocks(Here, p)
        sp == syncPoints(Here, p)
        above == sp.walk + BLOCK_DOWNLOAD_WINDOW + 1
    IN /\ peerStates[p].present
       /\ Len(T.out.getdataBlk) > 0
       /\ sp.walk # NilIndex
       /\ above <= sp.best
       /\ ~HasData(Here, above)
       /\ requestedBlocks[above] = NoPeer
\* ---- C26 (SpecStall).  fetchHeaderBlocks(peer) changes the stalling
\* clock of a peer w only from 0 to the present time, and only when w is
\* not the fetching peer, w owns the lowest in-flight block without data of
\* the walk, the block just above the window is within the peer's chain,
\* has no data and is not in flight, the getdata of this call is empty and
\* the fetching peer had no outstanding block; a clock that is not 0 is
\* left as it is.
C26_StallClockOnlyOnWaitingFor ==
  \A p \in Peers :
    peerStates[p].present =>
      LET T == fetchHeaderBlocks(Here, p)
          sp == syncPoints(Here, p)
          nWindowEnd == sp.walk + BLOCK_DOWNLOAD_WINDOW
          inFlight == {h \in Blocks : /\ h > sp.walk /\ h <= nWindowEnd /\ h <= sp.best
                                      /\ ~HasData(Here, h)
                                      /\ requestedBlocks[h] # NoPeer}
      IN \A w \in Peers :
           T.peers[w].stallingSince # peers[w].stallingSince =>
             /\ peers[w].stallingSince = 0
             /\ T.peers[w].stallingSince = now
             /\ w # p
             /\ sp.walk # NilIndex
             /\ inFlight # {}
             /\ \E h \in inFlight :
                  /\ requestedBlocks[h] = w
                  /\ \A g \in inFlight : h <= g
             /\ nWindowEnd + 1 <= sp.best
             /\ ~HasData(Here, nWindowEnd + 1)
             /\ requestedBlocks[nWindowEnd + 1] = NoPeer
             /\ Len(T.out.getdataBlk) = 0
             /\ peerStates[p].requestedBlocks = {}
             /\ T.requestedBlocks = requestedBlocks

\* C26 witness: a peer's stalling clock was started earlier, time has
\* passed, and fetchHeaderBlocks of another idle peer meets the same stalled
\* window again.
C26_StalledWindowMetAgain ==
  \E p \in Peers, w \in Peers :
    LET T == fetchHeaderBlocks(Here, p)
        sp == syncPoints(Here, p)
    IN /\ peerStates[p].present /\ w # p
       /\ isSyncCandidate(Here, p) /\ peers[p].verAck
       /\ peers[w].stallingSince # 0
       /\ peers[w].stallingSince < now
       /\ peerStates[p].requestedBlocks = {}
       /\ sp.walk # NilIndex
       /\ sp.walk + BLOCK_DOWNLOAD_WINDOW + 1 <= sp.best
       /\ ~HasData(Here, sp.walk + BLOCK_DOWNLOAD_WINDOW + 1)
       /\ requestedBlocks[sp.walk + BLOCK_DOWNLOAD_WINDOW + 1] = NoPeer
       /\ requestedBlocks[sp.walk + 1] = w
       /\ Len(T.out.getdataBlk) = 0
       /\ T.peers[w].stallingSince = peers[w].stallingSince
\* The blocks between the tip and last that have no data and are not in
\* flight, and whether the backward walk from last stops above the tip
\* because it has collected more than MAX_BLOCKS_IN_TRANSIT_PER_PEER of them.
C27_Needed(last) ==
  {h \in Blocks : /\ h > Tip(Here) /\ h <= last
                  /\ ~HasData(Here, h) /\ requestedBlocks[h] = NoPeer}
C27_LargeReorg(last) ==
  \E w \in Blocks :
    /\ w > Tip(Here) /\ w <= last
    /\ Cardinality({h \in C27_Needed(last) : h > w}) > MAX_BLOCKS_IN_TRANSIT_PER_PEER

\* the state in which handleHeadersMsg has accepted the headers of peer p
\* and turns to the blocks
C27_Accepted(p, hdr, isCur) ==
  LET S1 == ProcessBlockHeadCallBack(updatePeerState(Cur(Env(isCur, TRUE, {})), p, hdr), hdr)
      S2 == [S1 EXCEPT !.peerStates[p].unconnectingHeaders = 0, !.out.res = "ok"]
  IN IF hdr.full /\ p = syncPeer THEN PushGetHeadersMsg(S2, p, zeroHash) ELSE S2

\* ---- C27 (Spec).  A headers message of a connected peer that connects, is
\* accepted, ends in a valid header with at least the work of the tip, and
\* is handled while direct fetch is allowed: when the backward walk reaches
\* the active chain, the getdata names only blocks between the tip and the
\* last header that had no data and were not in sm.requestedBlocks, in
\* rising height, no more than MAX_BLOCKS_IN_TRANSIT_PER_PEER less the
\* peer's outstanding requests, each recorded for the peer in both request
\* maps, and nothing else changes in the maps; when the walk does not reach
\* the active chain the step is the one of fetchHeaderBlocks(peer).
C27_DirectFetch ==
  \A p \in Peers, last \in Blocks, full \in BOOLEAN, isCur \in BOOLEAN :
    LET hdr == [kind |-> "batch", last |-> last, procOk |-> TRUE, full |-> full]
        T == handleHeadersMsg(Cur(Env(isCur, TRUE, {})), p, hdr)
        U == fetchHeaderBlocks(C27_Accepted(p, hdr, isCur), p)
        gd == T.out.getdataBlk
        room == MAX_BLOCKS_IN_TRANSIT_PER_PEER - Cardinality(peerStates[p].requestedBlocks)
        asked == {gd[i][2] : i \in 1..Len(gd)}
    IN (/\ peerStates[p].present
        /\ invalidFrom = NilIndex \/ last < invalidFrom
        /\ ChainWork(Tip(Here)) <= ChainWork(last))
         => IF C27_LargeReorg(last)
              THEN T = U
              ELSE /\ asked \subseteq C27_Needed(last)
                   /\ \A i \in 1..Len(gd) : gd[i][1] = p
                   /\ \A i, j \in 1..Len(gd) : i < j => gd[i][2] < gd[j][2]
                   /\ Len(gd) <= IF room > 0 THEN room ELSE 0
                   /\ T.peerStates[p].requestedBlocks = peerStates[p].requestedBlocks \cup asked
                   /\ T.requestedBlocks =
                        [h \in Blocks |-> IF h \in asked THEN p ELSE requestedBlocks[h]]

\* ---- C28 (SpecFork), as stated.  fetchHeaderBlocks(peer) puts a block
\* into a getdata or into sm.requestedBlocks only when the best block known
\* of the peer has at least the minimum chain work and more work than the
\* tip of the active chain.
C28_FetchOnlyMoreWork ==
  \A p \in Peers :
    peerStates[p].present =>
      LET T == fetchHeaderBlocks(Here, p)
          best == lastAccouncedBlock(Here, p)
      IN (Len(T.out.getdataBlk) > 0 \/ T.requestedBlocks # requestedBlocks)
           => /\ best # NilIndex
              /\ ChainWork(best) >= MinChainWork
              /\ ChainWork(best) > ChainWork(Tip(Here))

\* ---- C28 (SpecFork), amended.  fetchHeaderBlocks(peer) puts a block into
\* a getdata or into sm.requestedBlocks only when the best block known of
\* the peer has at least the minimum chain work and at least the work of
\* the tip of the active chain.
C28_FetchOnlyEnoughWork ==
  \A p \in Peers :
    peerStates[p].present =>
      LET T == fetchHeaderBlocks(Here, p)
          best == lastAccouncedBlock(Here, p)
      IN (Len(T.out.getdataBlk) > 0 \/ T.requestedBlocks # requestedBlocks)
           => /\ best # NilIndex
              /\ ChainWork(best) >= MinChainWork
              /\ ChainWork(best) >= ChainWork(Tip(Here))

\* C28 witness: fetchHeaderBlocks requests a block of a peer whose best
\* known block has exactly the work of the tip.
C28_FetchAtEqualWork ==
  \E p \in Peers :
    LET T == fetchHeaderBlocks(Here, p)
        best == lastAccouncedBlock(Here, p)
    IN /\ peerStates[p].present
       /\ best # NilIndex
       /\ ChainWork(best) = ChainWork(Tip(Here))
       /\ Len(T.out.getdataBlk) > 0
\* the state in which handleBlockMsg finds that ProcessBlockCallBack has
\* returned the error outcome for block h of peer p
C29_AtError(p, h, outcome) ==
  ProcessBlockCallBack([Here EXCEPT !.peerStates[p].requestedBlocks = @ \ {h},
                                    !.requestedBlocks[h] = NoPeer,
                                    !.peers[p].stallingSince = 0],
                       h, outcome)

\* ---- C29 (Spec).  When ProcessBlockCallBack returns an error for a block
\* of a connected peer (a block the peer was asked for, or any block on the
\* regression test chain), nobody is disconnected; one reject message for
\* the block goes to the peer when the error has a reject code and none
\* otherwise; sm.rejectedTxns and the recorded height of the peer stay as
\* they were; when the peer has no outstanding block request left the step
\* ends as fetchHeaderBlocks(peer) does, and otherwise it sends no getdata
\* and no getheaders and changes nothing but the two entries of the block.
C29_BlockErrorHandled ==
  \A p \in Peers, h \in Blocks :
    (peerStates[p].present /\ (h \in peerStates[p].requestedBlocks \/ regtest))
      => \A outcome \in BlockOutcomes(Here, h) \ {"ok"} :
           LET T == handleBlockMsg(Here, p, h, outcome)
               E == C29_AtError(p, h, outcome)
               F == IF peerStates[p].requestedBlocks \ {h} = {}
                      THEN fetchHeaderBlocks(E, p) ELSE E
           IN /\ T.out.disconnect = {}
              /\ T.out.reject = IF outcome \in {"reject", "invalid"}
                                  THEN {<<p, "block", h>>} ELSE {}
              /\ T.rejectedTxns = rejectedTxns
              /\ T.peers[p].lastBlock = peers[p].lastBlock
              /\ T.syncPeer = syncPeer
              /\ T.hasData = hasData
              /\ T.requestedBlocks = F.requestedBlocks
              /\ T.peerStates = F.peerStates
              /\ T.peers = F.peers
              /\ T.out.getdataBlk = F.out.getdataBlk
              /\ T.out.getheaders = F.out.getheaders
              /\ T.out.getdataTx = {}

\* C29 witness: a peer that still has a block request outstanding sends
\* another block, which is rejected, while the tip is below the height the
\* peer reported; and a peer sends its only requested block, which fails
\* with an error that has no reject code, and is asked for a block again.
C29_RejectedAndFailed ==
  /\ \E p \in Peers, h \in Blocks :
       /\ peerStates[p].present /\ regtest
       /\ peerStates[p].requestedBlocks \ {h} # {}
       /\ Tip(Here) # 0 /\ Tip(Here) # peers[p].lastBlock
       /\ handleBlockMsg(Here, p, h, "reject").out.reject = {<<p, "block", h>>}
  /\ \E p \in Peers, h \in Blocks :
       /\ peerStates[p].requestedBlocks = {h}
       /\ handleBlockMsg(Here, p, h, "error").out.reject = {}
       /\ Len(handleBlockMsg(Here, p, h, "error").out.getdataBlk) > 0
\* every block that is in flight now is still in flight in T, the blocks
\* of except apart
C30_KeepsInFlight(T, except) ==
  \A h \in Blocks \ except :
    requestedBlocks[h] # NoPeer => T.requestedBlocks[h] # NoPeer

\* ---- C30 (SpecStall).  Whatever time has passed, a step takes a block out
\* of sm.requestedBlocks only when it handles a block message with that
\* hash or the DonePeer of a peer whose requestedBlocks hold it: the ticker's
\* scan and the handling of an inv, headers, transaction, mined block or
\* new peer message keep every entry, a block message keeps the entries of
\* the other blocks, and DonePeer keeps the entries the peer did not hold.
C30_InFlightRemovedOnlyByBlockOrDone ==
  /\ \A T \in scanToFetchHeaderBlocks(Here) : C30_KeepsInFlight(T, {})
  /\ \A p \in Peers, invVects \in InvLists({MaxHeight}, 1..NumTx, FALSE) :
       \A have \in SUBSET TxOf(invVects), isCur \in EnvChoices(LastBlockIdx(invVects) # 0) :
         \A T \in handleInvMsg(Cur(Env(isCur, FALSE, have)), p, invVects) :
           C30_KeepsInFlight(T, {})
  /\ \A p \in Peers, hdr \in HeaderMsgs(Blocks, {FALSE}) :
       \A isCur \in EnvChoices(hdr.kind = "batch"), direct \in EnvChoices(hdr.kind = "batch" /\ hdr.procOk) :
         C30_KeepsInFlight(handleHeadersMsg(Cur(Env(isCur, direct, {})), p, hdr), {})
  /\ \A p \in Peers, t \in 1..NumTx, rej \in SUBSET (1..NumTx), have \in BOOLEAN :
       \A err \in {"none", "reject", "error"} :
         \A T \in handleTxMsg(Cur(Env(FALSE, FALSE, IF have THEN {t} ELSE {})), p, t,
                              [rejectTxs |-> rej, err |-> err]) :
           C30_KeepsInFlight(T, {})
  /\ \A h \in Blocks : \A outcome \in BlockOutcomes(Here, h) :
       C30_KeepsInFlight(handleMinedBlockMsg(Here, h, outcome), {})
  /\ \A p \in Peers : \A fresh \in PeerChoices(p), isCur \in BOOLEAN :
       ~peerStates[p].present =>
         \A T \in handleNewPeerMsg([Cur(Env(isCur, FALSE, {})) EXCEPT !.peers[p] = fresh], p) :
           C30_KeepsInFlight(T, {})
  /\ \A p \in Peers, g \in Blocks : \A outcome \in BlockOutcomes(Here, g) :
       C30_KeepsInFlight(handleBlockMsg(Here, p, g, outcome), {g})
  /\ \A p \in Peers : \A T \in handleDonePeerMsg(Here, p) :
       C30_KeepsInFlight(T, peerStates[p].requestedBlocks)

\* C30 witness: the owner of a block in flight has stalled for longer than
\* BLOCK_STALLING_TIMEOUT, the ticker's scan disconnects it, and the block
\* is still in flight after the scan.
C30_StalledRequestKept ==
  \E h \in Blocks, T \in scanToFetchHeaderBlocks(Here) :
    LET w == requestedBlocks[h] IN
    /\ w # NoPeer
    /\ peers[w].stallingSince # 0
    /\ now - peers[w].stallingSince > BLOCK_STALLING_TIMEOUT
    /\ w \in T.out.disconnect
    /\ T.requestedBlocks[h] = w
\* ---- C31 (Spec).  Every peer that owns an entry of sm.requestedBlocks is
\* connected, is a sync candidate and has completed its handshake.
C31_OwnersAreCandidates ==
  \A h \in Blocks :
    requestedBlocks[h] # NoPeer =>
      LET q == requestedBlocks[h] IN
      /\ peerStates[q].present
      /\ peerStates[q].syncCandidate
      /\ isSyncCandidate(Here, q)
      /\ peers[q].verAck
\* ---- C32 (Spec).  Handling a block message of a connected peer p leaves
\* every entry of sm.requestedBlocks that is owned by another peer as it
\* was, whatever ProcessBlockCallBack returns and on either chain.
C32_BlockRemovesOnlyOwnEntry ==
  \A p \in Peers, h \in Blocks :
    peerStates[p].present =>
      \A outcome \in BlockOutcomes(Here, h) :
        LET T == handleBlockMsg(Here, p, h, outcome) IN
        \A g \in Blocks :
          (requestedBlocks[g] # NoPeer /\ requestedBlocks[g] # p)
            => T.requestedBlocks[g] = requestedBlocks[g]
\* ---- C33 (SpecLoop).  No call of QueueTx, QueueBlock, QueueMessgePool,
\* QueueGetBlocks or QueueMinedBlock that began before Stop is ever left
\* where its reply channel cannot be signalled any more: the worker has
\* taken the quit case and is gone while the call, not yet signalled, has
\* its message in the queue or is about to send it.
C33_NoProducerStranded ==
  \A i \in DOMAIN calls :
    (/\ calls[i].kind \in {"QueueTx", "QueueBlock", "QueueMessgePool",
                           "QueueGetBlocks", "QueueMinedBlock"}
     /\ ~calls[i].afterStop
     /\ worker = "done")
      => ~(calls[i].pc \in {"send", "queued"} /\ calls[i].replies = 0)
\* ---- C34 (SpecTx).  When a transaction that is in the requestedTxns of
\* a connected peer p arrives in a tx message of p, it is afterwards in
\* neither p's requestedTxns nor sm.requestedTxns, whether or not the
\* mempool, the UTXO set or the orphan pool know it already and whatever
\* ProcessTransactionCallBack returns.
C34_DeliveredTxLeavesFlight ==
  \A p \in Peers, t \in 1..NumTxReq :
    (peerStates[p].present /\ t \in peerStates[p].requestedTxns)
      => \A have \in BOOLEAN, rej \in RejectLists(t) :
           \A T \in handleTxMsg(Cur(Env(FALSE, FALSE, IF have THEN {t} ELSE {})), p, t,
                                [rejectTxs |-> rej, err |-> ErrOf(t, rej)]) :
             /\ t \notin T.peerStates[p].requestedTxns
             /\ t \notin T.requestedTxns
\* ---- C35 (SpecTx).  After every step, no transaction hash is in the
\* requestedTxns of two connected peers, and every hash in the
\* requestedTxns of a connected peer is in sm.requestedTxns.
C35_TxInFlightFromOnePeer ==
  /\ \A p \in Peers, q \in Peers :
       (p # q /\ peerStates[p].present /\ peerStates[q].present)
         => peerStates[p].requestedTxns \cap peerStates[q].requestedTxns = {}
  /\ \A p \in Peers :
       peerStates[p].present => peerStates[p].requestedTxns \subseteq requestedTxns
\* ---- C36 (SpecStall).  After every step, every connected peer whose
\* stalling clock is running (stallingSince is not 0) owns at least one
\* entry of sm.requestedBlocks.
C36_StallingPeerOwnsRequest ==
  \A p \in Peers :
    (peerStates[p].present /\ peers[p].stallingSince # 0)
      => \E h \in Blocks : requestedBlocks[h] = p

\* ---- SpecElect: election of the sync peer on a chain of MaxHeightMix
\* blocks.  Peers connect reporting the genesis block as their best one and
\* learn of blocks later; the node also mines.
LatePeer == FreshPeer(0, TRUE, TRUE, TRUE)

NextElect ==
  \/ \E p \in Peers : NewPeerStep(p, LatePeer)
  \/ \E p \in Peers : DonePeerStep(p)
  \/ \E p \in Peers, hdr \in HeaderMsgs({MaxHeightMix}, {FALSE}) : HeadersStep(p, hdr, MaxUnconnecting)
  \/ \E p \in Peers, invVects \in InvLists({MaxHeightMix}, {}, FALSE) : InvStep(p, invVects)
  \/ \E p \in Peers, h \in 1..MaxHeightMix : BlockStep(p, h, {"ok", "reject"})
  \/ \E h \in 1..MaxHeightMix : MinedBlockStep(h, {"ok"})
  \/ FetchTickStep
  \/ LeaveIBD

SpecElect == Init /\ [][NextElect]_vars

\* the state S as the next step of the loop finds it: nothing sent yet, the
\* chain answers env
AtStep(S, env) == [S EXCEPT !.env = env, !.out = NoOut]

\* The states one more inv, headers or block message or fetch tick of
\* SpecElect can leave behind S.
EventResults(S) ==
  LET headers ==
        UNION {{handleHeadersMsg(AtStep(S, Env(isCur, direct, {})), p, hdr) :
                  isCur \in BOOLEAN, direct \in BOOLEAN,
                  hdr \in {m \in HeaderMsgs({MaxHeightMix}, {FALSE}) :
                             m.kind = "unconnect" =>
                               S.peerStates[p].unconnectingHeaders < MaxUnconnecting}} :
                 p \in Peers}
      invs ==
        UNION {handleInvMsg(AtStep(S, Env(isCur, FALSE, {})), p, invVects) :
                 isCur \in BOOLEAN, p \in Peers,
                 invVects \in InvLists({MaxHeightMix}, {}, FALSE)}
      blocks ==
        UNION {{handleBlockMsg(AtStep(S, Env(FALSE, FALSE, {})), p, h, outcome) :
                  outcome \in BlockOutcomes(S, h) \cap {"ok", "reject"}} :
                 p \in Peers, h \in 1..MaxHeightMix}
      ticks == scanToFetchHeaderBlocks(AtStep(S, Env(FALSE, FALSE, {})))
  IN {AtStep(T, Env(FALSE, FALSE, {})) : T \in headers \cup invs \cup blocks \cup ticks}

\* every state the loop can reach from the states of frontier by handling
\* inv, headers and block messages and fetch ticks only
RECURSIVE EventClosure(_, _)
EventClosure(seen, frontier) ==
  IF frontier = {} THEN seen
  ELSE LET new == (UNION {EventResults(S) : S \in frontier}) \ seen
       IN EventClosure(seen \cup new, new)

\* there is no sync peer and a sync candidate is connected whose last known
\* block is not below the tip
C37_NoSyncPeerButCandidate ==
  /\ syncPeer = NoPeer
  /\ \E q \in Peers :
       /\ peerStates[q].present
       /\ peerStates[q].syncCandidate
       /\ peers[q].lastBlock >= Tip(Here)

\* ---- C37 (SpecElect).  Whenever there is no sync peer and a connected
\* sync candidate's last known block is not below the tip, some sequence of
\* inv, headers and block messages and fetch ticks, with no peer connecting
\* or disconnecting, ends with a sync peer elected: what "a sync peer is
\* eventually elected as the loop keeps handling these events" needs at
\* the least.
C37_ElectionWithinReach ==
  C37_NoSyncPeerButCandidate =>
    \E T \in EventClosure({Here}, {Here}) : T.syncPeer # NoPeer

\* ---- C38 (Spec).  When handleNewPeerMsg re-elects because the new peer
\* is a sync candidate, the node is current and the new peer reports a
\* height strictly above the sync peer's last block, the sync peer the step
\* elects has a last block strictly above that of the sync peer before.
C38_ReelectedPeerIsHigher ==
  \A p \in Peers, lb \in 0..MaxHeight, c \in BOOLEAN :
    LET S == [Cur(Env(TRUE, FALSE, {})) EXCEPT !.peers[p] = FreshPeer(lb, TRUE, c, c)] IN
    (/\ ~peerStates[p].present
     /\ syncPeer # NoPeer
     /\ isSyncCandidate(S, p)
     /\ current(S)
     /\ lb > peers[syncPeer].lastBlock)
      => \A T \in handleNewPeerMsg(S, p) :
           T.syncPeer # NoPeer
             => T.peers[T.syncPeer].lastBlock > peers[syncPeer].lastBlock

\* the call fetchHeaderBlocks(p) in state S reaches the loop of
\* part_000:787 (none of the returns of part_000:728-771 is taken)
C39_Walks(S, p) ==
  LET sp == syncPoints(S, p) IN
  /\ isSyncCandidate(S, p)
  /\ S.peers[p].verAck
  /\ S.peerStates[p].present
  /\ Cardinality(S.peerStates[p].requestedBlocks) # MAX_BLOCKS_IN_TRANSIT_PER_PEER
  /\ ~(ChainWork(BestHeader(S)) < MinChainWork)
  /\ sp.walk # NilIndex /\ sp.best # NilIndex
  /\ ~(ChainWork(sp.best) < MinChainWork)
  /\ ~(ChainWork(sp.best) < ChainWork(Tip(S)))

\* the walk as the loop of part_000:787 starts
C39_W0(S, p) ==
  [S |-> S, walk |-> syncPoints(S, p).walk, list |-> <<>>, waitingfor |-> NoPeer,
   gd |-> <<>>, brk |-> FALSE]

C39_WindowEnd(S, p) == syncPoints(S, p).walk + BLOCK_DOWNLOAD_WINDOW

C39_MaxHeight(S, p) == Min(syncPoints(S, p).best, C39_WindowEnd(S, p) + 1)

\* the walks at which an iteration of the loop of part_000:787 starts
RECURSIVE C39_SlabStarts(_, _, _, _)
C39_SlabStarts(W, p, nWindowEnd, nMaxHeight) ==
  IF W.brk \/ ~(W.walk < nMaxHeight) THEN {}
  ELSE {W} \cup C39_SlabStarts(ScanList(PushSlab(W, nMaxHeight), p, 1, nWindowEnd),
                               p, nWindowEnd, nMaxHeight)

\* ---- C39 (Spec).  Every call of fetchHeaderBlocks that reaches its loop
\* ends: each iteration moves pindexWalk strictly up and not above
\* nMaxHeight = min(best known height, nWindowEnd + 1), so there are at most
\* nMaxHeight - pindexWalk.Height iterations; and the getdata of the call
\* names no block twice, although every iteration scans the slabs of the
\* iterations before it again.
C39_FetchWalkEnds ==
  \A p \in Peers :
    C39_Walks(Here, p) =>
      LET nWindowEnd == C39_WindowEnd(Here, p)
          nMaxHeight == C39_MaxHeight(Here, p)
          W0 == C39_W0(Here, p)
          starts == C39_SlabStarts(W0, p, nWindowEnd, nMaxHeight)
          W == WalkSlabs(W0, p, nWindowEnd, nMaxHeight)
          gd == fetchHeaderBlocks(Here, p).out.getdataBlk
      IN /\ fetchHeaderBlocks(Here, p) = QueueGetData(W.S, p, W.gd)
         /\ \A V \in starts :
              /\ PushSlab(V, nMaxHeight).walk > V.walk
              /\ PushSlab(V, nMaxHeight).walk <= nMaxHeight
         /\ Cardinality(starts) <= nMaxHeight - W0.walk
         /\ \A i, j \in 1..Len(gd) : i # j => gd[i] # gd[j]

\* C39 witness: a call whose first slab requested a block and whose second
\* slab holds only blocks with data or in flight, so that the scan goes on
\* to the first slab and meets the block the call has just requested.
C39_SecondSlabRevisits ==
  \E p \in Peers :
    /\ C39_Walks(Here, p)
    /\ \E V \in C39_SlabStarts(C39_W0(Here, p), p, C39_WindowEnd(Here, p), C39_MaxHeight(Here, p)) :
         /\ Len(V.gd) > 0
         /\ \A h \in (V.walk + 1)..PushSlab(V, C39_MaxHeight(Here, p)).walk :
              /\ IsValid(V.S, h)
              /\ HasData(V.S, h) \/ V.S.requestedBlocks[h] # NoPeer

\* ---- C40 (SpecLoop).  However many times Start is called, before or
\* after Stop and whatever the worker is doing, at most one goroutine
\* running messagesHandler is ever launched.
C40_AtMostOneWorker == launched <= 1

\* C40 witness: Start has been called more than once and one worker has been
\* launched.
C40_StartedTwice == started >= 2 /\ launched = 1

====
